---- MODULE Spec2Model ----
(***************************************************************************)
(* Task manager: TaskService (cache-aside orchestration) over the          *)
(* PostgresTaskRepository (record store) and the RedisCache (cache layer). *)
(* Every store call and every cache call of a service method is one        *)
(* atomic step of the calling client (repo.GetAll is two: its two          *)
(* queries); validation and the clock reading are steps of their own.      *)
(***************************************************************************)
EXTENDS Integers, Sequences, FiniteSets, TLC

\* ---------------------------------------------------------------- bounds
MaxTasks == 2          \* identifiers uuid.New() hands out in one run
MaxOps == 3            \* service calls made in one run of a single client
MaxConcOps == 2        \* service calls made in one run of two clients
MaxCacheFaults == 2    \* cache calls that fail in one run
MaxStoreFaults == 1    \* store calls that fail with an infrastructure error
MicroSecond == 2       \* clock units in one microsecond (the column's precision)
MaxRows == 2           \* rows of the tables GetAll is applied to on its own

Procs == {1, 2}        \* client goroutines

\* time that passes between two readings of the clock: successive readings are
\* separated by a store round trip, and fall on and off the microsecond grid
Tick == MicroSecond + 1

\* ------------------------------------------------------ program constants
DefaultPageSize == 10
MaxPageSize == 100

\* cacheTTL = 5 * time.Minute, in clock units
cacheTTL == 5 * 60 * 1000000 * MicroSecond

TaskStatusPending == "pending"
TaskStatusInProgress == "in_progress"
TaskStatusCompleted == "completed"
TaskStatusCancelled == "cancelled"

Nil == "<nil>"         \* a nil *string / *TaskStatus

ErrNone == "ok"
ErrInvalidInput == "InvalidInput"
ErrTaskNotFound == "NotFound"
ErrStorage == "StorageError"
ErrCache == "CacheError"

\* ---------------------------------------------------------------- inputs
Ids == 1..MaxTasks

CreateReqs ==
  { [title |-> "a", desc |-> "d", status |-> TaskStatusPending, assignee |-> "x"],
    [title |-> "a", desc |-> "",  status |-> "",                assignee |-> "y"],
    [title |-> "",  desc |-> "d", status |-> TaskStatusPending, assignee |-> "x"],
    [title |-> "a", desc |-> "d", status |-> "bogus",           assignee |-> "x"] }

UpdateReqs ==
  { [title |-> Nil, desc |-> Nil, status |-> TaskStatusCompleted, assignee |-> Nil],
    [title |-> "b", desc |-> "e", status |-> Nil,                 assignee |-> "y"],
    [title |-> "",  desc |-> Nil, status |-> Nil,                 assignee |-> Nil],
    [title |-> "b", desc |-> Nil, status |-> "bogus",             assignee |-> "y"] }

NilFilter == [isNil |-> TRUE, status |-> Nil, assignee |-> Nil, page |-> 0, size |-> 0]

Filters ==
  { NilFilter,
    [isNil |-> FALSE, status |-> Nil,               assignee |-> Nil, page |-> 1, size |-> 1],
    [isNil |-> FALSE, status |-> Nil,               assignee |-> Nil, page |-> 2, size |-> 1],
    [isNil |-> FALSE, status |-> TaskStatusPending, assignee |-> "x", page |-> 0, size |-> 150],
    [isNil |-> FALSE, status |-> "bogus",           assignee |-> Nil, page |-> 1, size |-> 10] }

\* ------------------------------------------------------------ data model
\* models.Task; NoTask stands for a nil *Task
NoTask ==
  [id |-> 0, title |-> "", desc |-> "", status |-> "", assignee |-> "",
   createdAt |-> 0, updatedAt |-> 0]

NoResp == [tasks |-> <<>>, total |-> 0, page |-> 0, pageSize |-> 0, totalPages |-> 0]

NoCall == [op |-> "none", id |-> 0, creq |-> CHOOSE r \in CreateReqs : TRUE,
           ureq |-> CHOOSE r \in UpdateReqs : TRUE, filter |-> NilFilter]

NoRes == [kind |-> "none", wrapped |-> FALSE, task |-> NoTask, resp |-> NoResp, count |-> 0]

NoLoc ==
  [task |-> NoTask, tasks |-> <<>>, total |-> 0, filter |-> NilFilter,
   serr |-> ErrNone, scalls |-> 0, ccalls |-> 0, cfail |-> 0, evictErr |-> FALSE,
   rows |-> 0 - 1]

IsValidStatusAny(status) == TRUE

IsValidStatus(status) ==
  status \in {TaskStatusPending, TaskStatusInProgress, TaskStatusCompleted, TaskStatusCancelled}

NewTaskSameId(title, description, assignee, status, id, now) ==
  [id |-> 1, title |-> title, desc |-> description,
   status |-> IF status = "" THEN TaskStatusPending ELSE status,
   assignee |-> assignee, createdAt |-> now, updatedAt |-> now]

NewTask(title, description, assignee, status, id, now) ==
  [id |-> id, title |-> title, desc |-> description,
   status |-> IF status = "" THEN TaskStatusPending ELSE status,
   assignee |-> assignee, createdAt |-> now, updatedAt |-> now]

\* ------------------------------------------------- record store (Postgres)
\* a TIMESTAMP column keeps microseconds: the sub-microsecond part is dropped
PgTime(t) == (t \div MicroSecond) * MicroSecond

PgRow(task) == [task EXCEPT !.createdAt = PgTime(@), !.updatedAt = PgTime(@)]

Restrict(f, S) == [x \in S |-> f[x]]

\* id is the PRIMARY KEY of the table: an INSERT under an id in use fails
InsertErr(st, task) == IF task.id \in DOMAIN st THEN ErrStorage ELSE ErrNone

RepoCreate(st, task) ==
  IF InsertErr(st, task) # ErrNone THEN st
  ELSE [i \in DOMAIN st \cup {task.id} |-> IF i = task.id THEN PgRow(task) ELSE st[i]]

RepoGetByID(st, id) == IF id \in DOMAIN st THEN st[id] ELSE NoTask

RowsAffectedOne(st, id) == 1
RowsAffected(st, id) == IF id \in DOMAIN st THEN 1 ELSE 0

RepoUpdateRecreate(st, task) ==
  IF RowsAffected(st, task.id) = 0 THEN st
  ELSE [st EXCEPT ![task.id] = [PgRow(task) EXCEPT !.createdAt = PgTime(task.updatedAt)]]

RepoUpdate(st, task) ==
  IF RowsAffected(st, task.id) = 0 THEN st
  ELSE [st EXCEPT ![task.id] =
          [@ EXCEPT !.title = task.title, !.desc = task.desc, !.status = task.status,
                    !.assignee = task.assignee, !.updatedAt = PgTime(task.updatedAt)]]

RepoDeleteNothing(st, id) == st
RepoDelete(st, id) == Restrict(st, DOMAIN st \ {id})

ExecErrNever(rows) == ErrNone
ExecErr(rows) == IF rows = 0 THEN ErrTaskNotFound ELSE ErrNone

MatchesEither(t, filter) ==
  \/ filter.status # Nil /\ t.status = filter.status
  \/ filter.assignee # Nil /\ t.assignee = filter.assignee
  \/ filter.status = Nil /\ filter.assignee = Nil

Matches(t, filter) ==
  /\ filter.status # Nil => t.status = filter.status
  /\ filter.assignee # Nil => t.assignee = filter.assignee

Matching(st, filter) == { st[i] : i \in { j \in DOMAIN st : Matches(st[j], filter) } }

RepoCountWhere(st, filter) == Cardinality(Matching(st, filter))

RECURSIVE OrderByCreatedDesc(_)
OrderByCreatedDesc(S) ==
  IF S = {} THEN <<>>
  ELSE LET m == CHOOSE t \in S : \A u \in S : u.createdAt <= t.createdAt
       IN <<m>> \o OrderByCreatedDesc(S \ {m})

Min(a, b) == IF a < b THEN a ELSE b

LimitOffset(s, limit, offset) ==
  IF offset >= Len(s) THEN <<>>
  ELSE SubSeq(s, offset + 1, Min(Len(s), offset + limit))

RepoSelectPage(st, filter) ==
  LET page == IF filter.page < 1 THEN 1 ELSE filter.page
      sz0 == IF filter.size < 1 THEN DefaultPageSize ELSE filter.size
      pageSize == IF sz0 > MaxPageSize THEN MaxPageSize ELSE sz0
      offset == (page - 1) * pageSize
  IN LimitOffset(OrderByCreatedDesc(Matching(st, filter)), pageSize, offset)

RepoCountAnyRow(st) == IF DOMAIN st = {} THEN 0 ELSE 1
RepoCount(st) == Cardinality(DOMAIN st)

\* ------------------------------------------------------ cache layer (Redis)
\* json.Marshal / json.Unmarshal of a Task or a []Task: every field is a
\* string or an RFC3339Nano time, so the document carries the field values
MarshalEmpty(v) == [json |-> <<>>]
Marshal(v) == [json |-> v]
Unmarshal(d) == d.json

\* fmt.Sprintf("%d", n)
ItoaOneDigit(n) == ToString(n % 10)
Itoa(n) == IF n < 0 THEN "-" \o ToString(0 - n) ELSE ToString(n)

\* the prefix of the record keys, and the key of a record: taskCachePrefix + id
taskCachePrefix == "task:"
TaskKey(id) == taskCachePrefix \o Itoa(id)

\* strings.HasPrefix
HasPrefix(s, prefix) == Len(s) >= Len(prefix) /\ SubSeq(s, 1, Len(prefix)) = prefix

\* the keys the SCAN of InvalidateTaskList returns: MATCH "tasks:list*"
MatchesPagePattern(key) == HasPrefix(key, "tasks:list:page")
MatchesListPattern(key) == HasPrefix(key, "tasks:list")

\* GenerateCacheKey, with the page left out of the key
GenerateCacheKeyNoPage(filter) ==
  IF filter.isNil THEN "tasks:list" \o ":all"
  ELSE "tasks:list"
       \o (IF filter.status # Nil THEN ":status:" \o filter.status ELSE "")
       \o (IF filter.assignee # Nil THEN ":assignee:" \o filter.assignee ELSE "")
       \o ":size:" \o Itoa(filter.size)

\* GenerateCacheKey: the string it concatenates
GenerateCacheKey(filter) ==
  IF filter.isNil THEN "tasks:list" \o ":all"
  ELSE "tasks:list"
       \o (IF filter.status # Nil THEN ":status:" \o filter.status ELSE "")
       \o (IF filter.assignee # Nil THEN ":assignee:" \o filter.assignee ELSE "")
       \o ":page:" \o Itoa(filter.page) \o ":size:" \o Itoa(filter.size)

\* ------------------------------------------------------------- TaskService
\* ListTasks, lines 168-181: nil filter and pagination defaults
NormalizeNoClamp(filter) ==
  LET f0 == IF filter.isNil
            THEN [isNil |-> FALSE, status |-> Nil, assignee |-> Nil, page |-> 0, size |-> 0]
            ELSE filter
      f1 == IF f0.page < 1 THEN [f0 EXCEPT !.page = 1] ELSE f0
  IN IF f1.size < 1 THEN [f1 EXCEPT !.size = DefaultPageSize] ELSE f1

Normalize(filter) ==
  LET f0 == IF filter.isNil
            THEN [isNil |-> FALSE, status |-> Nil, assignee |-> Nil, page |-> 0, size |-> 0]
            ELSE filter
      f1 == IF f0.page < 1 THEN [f0 EXCEPT !.page = 1] ELSE f0
      f2 == IF f1.size < 1 THEN [f1 EXCEPT !.size = DefaultPageSize] ELSE f1
  IN IF f2.size > MaxPageSize THEN [f2 EXCEPT !.size = MaxPageSize] ELSE f2

\* CreateTask, lines 120-126: what makes the request invalid
CreateInvalidStatusOnly(req) == req.status # "" /\ ~IsValidStatus(req.status)
CreateInvalid(req) == req.title = "" \/ (req.status # "" /\ ~IsValidStatus(req.status))

\* ListTasks, lines 184-186
ListInvalid(filter) == filter.status # Nil /\ ~IsValidStatus(filter.status)

\* UpdateTask, lines 246-249
UpdateInvalidNever(req) == FALSE
UpdateInvalid(req) == req.status # Nil /\ ~IsValidStatus(req.status)

HitResponseFloor(cachedTasks, filter) ==
  LET total == Len(cachedTasks)
      tp == (total + filter.size - 1) \div filter.size
  IN [tasks |-> cachedTasks, total |-> total, page |-> filter.page,
      pageSize |-> filter.size, totalPages |-> IF tp = 0 THEN 1 ELSE tp]

\* ListTasks on a cache hit, lines 193-201
HitResponse(cachedTasks, filter) ==
  LET total == Len(cachedTasks)
  IN [tasks |-> cachedTasks, total |-> total, page |-> filter.page,
      pageSize |-> filter.size,
      totalPages |-> (total + filter.size - 1) \div filter.size]

\* ListTasks after the store query, lines 217-228
MissResponseNoFloor(tasks, total, filter) ==
  [tasks |-> tasks, total |-> total, page |-> filter.page, pageSize |-> filter.size,
   totalPages |-> (total + filter.size - 1) \div filter.size]

MissResponse(tasks, total, filter) ==
  LET tp == (total + filter.size - 1) \div filter.size
  IN [tasks |-> tasks, total |-> total, page |-> filter.page,
      pageSize |-> filter.size, totalPages |-> IF tp = 0 THEN 1 ELSE tp]

ApplyUpdateStatusOnly(task, req) ==
  [task EXCEPT !.status = IF req.status # Nil THEN req.status ELSE @]

\* UpdateTask, lines 240-254: the fields present in the request
ApplyUpdate(task, req) ==
  [task EXCEPT !.title = IF req.title # Nil THEN req.title ELSE @,
               !.desc = IF req.desc # Nil THEN req.desc ELSE @,
               !.status = IF req.status # Nil THEN req.status ELSE @,
               !.assignee = IF req.assignee # Nil THEN req.assignee ELSE @]

\* "_ = s.cache.X(...)": the error of a cache write or eviction is dropped
DiscardKeep(err) == err
Discard(err) == ErrNone

\* "err == nil && cached != nil": what counts as a cache hit
IsHitOnError(err, present) == err # ErrNone \/ present
IsHit(err, present) == err = ErrNone /\ present

\* ------------------------------------------------------------------- state
VARIABLES
  store,        \* tasks table: id -> row
  taskCache,    \* Redis keys "task:<id>": id -> document
  listCache,    \* Redis keys "tasks:list...": key -> document
  hasCache,     \* TaskService.cache # nil
  clock,        \* wall clock, last reading of time.Now()
  nextId,       \* next identifier uuid.New() returns
  cacheFaults,  \* cache calls that have failed
  storeFaults,  \* store calls that have failed with an infrastructure error
  pc,           \* per client: position inside the service method
  call,         \* per client: the method and its arguments
  loc,          \* per client: the method's local variables
  res,          \* per client: what the method returned
  pre,          \* per client: store and cache when the method was entered
  nops,         \* service calls started
  clients,      \* client goroutines calling the service: 1 (one call at a time) or 2
  refStore,     \* tasks table of a TaskService built with a nil cache
  refRes,       \* per client: what that service returned for the same call
  lastUpd,      \* per id: what the last successful UpdateTask returned, the entry cached
                \* before it, and whether its eviction of that entry succeeded
  deleted,      \* per id: whether DeleteTask succeeded, the entry was cached before it,
                \* and its eviction of that entry succeeded
  created       \* the records the successful CreateTask calls returned, in order of return

sysVars == <<store, taskCache, listCache>>
envVars == <<clock, nextId, cacheFaults, storeFaults>>
histVars == <<refStore, refRes, lastUpd, deleted, created>>
vars == <<store, taskCache, listCache, hasCache, clock, nextId, cacheFaults, storeFaults,
          pc, call, loc, res, pre, nops, clients, refStore, refRes,
          lastUpd, deleted, created>>

EmptyFn == [x \in {} |-> x]

NoUpd == [task |-> NoTask, old |-> NoTask, evicted |-> FALSE]

NoDel == [done |-> FALSE, cached |-> FALSE, evicted |-> FALSE]

Snapshot == [store |-> store, taskCache |-> taskCache, listCache |-> listCache]

NoSnapshot == [store |-> EmptyFn, taskCache |-> EmptyFn, listCache |-> EmptyFn]

\* a row an earlier run of the service left in the table
SeedRow ==
  [id |-> 1, title |-> "a", desc |-> "d", status |-> TaskStatusPending, assignee |-> "x",
   createdAt |-> 0, updatedAt |-> 0]

SeedStores == { EmptyFn, [i \in {1} |-> SeedRow] }

InitWith(n) ==
  /\ store \in SeedStores
  /\ taskCache = EmptyFn
  /\ listCache = EmptyFn
  /\ hasCache \in BOOLEAN
  /\ clock = 0
  /\ nextId = Cardinality(DOMAIN store) + 1
  /\ cacheFaults = 0
  /\ storeFaults = 0
  /\ pc = [p \in Procs |-> "idle"]
  /\ call = [p \in Procs |-> NoCall]
  /\ loc = [p \in Procs |-> NoLoc]
  /\ res = [p \in Procs |-> NoRes]
  /\ pre = [p \in Procs |-> NoSnapshot]
  /\ nops = 0
  /\ clients = n
  /\ refStore = IF n = 1 THEN store ELSE EmptyFn
  /\ refRes = [p \in Procs |-> NoRes]
  /\ lastUpd = [i \in Ids |-> NoUpd]
  /\ deleted = [i \in Ids |-> NoDel]
  /\ created = <<>>

Init == InitWith(1)

ConcInit == InitWith(2)

\* ---------------------------------------------------------- step helpers
Goto(p, label, newloc) ==
  /\ pc' = [pc EXCEPT ![p] = label]
  /\ loc' = [loc EXCEPT ![p] = newloc]
  /\ UNCHANGED <<res, histVars>>

ErrDropped(kind, wrapped) == [NoRes EXCEPT !.kind = ErrNone]
Err(kind, wrapped) == [NoRes EXCEPT !.kind = kind, !.wrapped = wrapped]
OkTask(task) == [NoRes EXCEPT !.kind = ErrNone, !.task = task]
OkResp(resp) == [NoRes EXCEPT !.kind = ErrNone, !.resp = resp]
OkCount(n) == [NoRes EXCEPT !.kind = ErrNone, !.count = n]
OkNothing == [NoRes EXCEPT !.kind = ErrNone]

\* ------------------------------------------- the service without a cache
\* The same methods with s.cache = nil, run as one piece on refStore with the
\* identifier and clock reading the call drew; an infrastructure failure of
\* the store is the environment's and is taken over as it happened.
RefOutcome(st, c, l, r) ==
  IF r.kind = ErrStorage THEN [store |-> st, res |-> r]
  ELSE IF c.op = "create" THEN
    IF CreateInvalid(c.creq)
    THEN [store |-> st, res |-> Err(ErrInvalidInput, FALSE)]
    ELSE [store |-> RepoCreate(st, l.task), res |-> OkTask(l.task)]
  ELSE IF c.op = "get" THEN
    IF c.id \in DOMAIN st
    THEN [store |-> st, res |-> OkTask(RepoGetByID(st, c.id))]
    ELSE [store |-> st, res |-> Err(ErrTaskNotFound, FALSE)]
  ELSE IF c.op = "list" THEN
    LET filter == Normalize(c.filter) IN
      IF ListInvalid(filter)
      THEN [store |-> st, res |-> Err(ErrInvalidInput, FALSE)]
      ELSE [store |-> st,
            res |-> OkResp(MissResponse(RepoSelectPage(st, filter),
                                        RepoCountWhere(st, filter), filter))]
  ELSE IF c.op = "update" THEN
    IF c.id \notin DOMAIN st THEN [store |-> st, res |-> Err(ErrTaskNotFound, FALSE)]
    ELSE IF UpdateInvalid(c.ureq)
    THEN [store |-> st, res |-> Err(ErrInvalidInput, FALSE)]
    ELSE LET task == [ApplyUpdate(RepoGetByID(st, c.id), c.ureq)
                        EXCEPT !.updatedAt = l.task.updatedAt]
         IN [store |-> RepoUpdate(st, task), res |-> OkTask(task)]
  ELSE IF c.op = "delete" THEN
    IF ExecErr(RowsAffected(st, c.id)) # ErrNone
    THEN [store |-> st, res |-> Err(ErrTaskNotFound, FALSE)]
    ELSE [store |-> RepoDelete(st, c.id), res |-> OkNothing]
  ELSE [store |-> st, res |-> OkCount(RepoCount(st))]

\* ------------------------------------------------------ returning to caller
CachedBefore(p, id) ==
  IF id \in DOMAIN pre[p].taskCache THEN Unmarshal(pre[p].taskCache[id]) ELSE NoTask

\* the method returns r; with a single client the run's history is recorded
Finish(p, r, newloc) ==
  /\ pc' = [pc EXCEPT ![p] = "done"]
  /\ loc' = [loc EXCEPT ![p] = newloc]
  /\ res' = [res EXCEPT ![p] = r]
  /\ created' = IF call[p].op = "create" /\ r.kind = ErrNone
                THEN Append(created, r.task) ELSE created
  /\ IF clients = 1
     THEN /\ refStore' = RefOutcome(refStore, call[p], newloc, r).store
          /\ refRes' = [refRes EXCEPT ![p] = RefOutcome(refStore, call[p], newloc, r).res]
          /\ lastUpd' =
               IF call[p].op = "update" /\ r.kind = ErrNone
               THEN [lastUpd EXCEPT ![call[p].id] =
                       [task |-> r.task, old |-> CachedBefore(p, call[p].id),
                        evicted |-> ~newloc.evictErr]]
               ELSE IF call[p].op = "delete" /\ r.kind = ErrNone
               THEN [lastUpd EXCEPT ![call[p].id] = NoUpd]
               ELSE lastUpd
          /\ deleted' =
               IF call[p].op = "delete" /\ r.kind = ErrNone
               THEN [deleted EXCEPT ![call[p].id] =
                       [done |-> TRUE, cached |-> call[p].id \in DOMAIN pre[p].taskCache,
                        evicted |-> ~newloc.evictErr]]
               ELSE deleted
     ELSE UNCHANGED <<refStore, refRes, lastUpd, deleted>>


\* what a method returns after a cache write or eviction whose error was err
AfterCacheWrite(err, ok) == IF Discard(err) = ErrNone THEN ok ELSE Err(ErrCache, TRUE)

SCallTwice(l) == [l EXCEPT !.scalls = @ + 2]
SCall(l) == [l EXCEPT !.scalls = @ + 1]
CCall(l) == [l EXCEPT !.ccalls = @ + 1]
SFail(l) == [l EXCEPT !.scalls = @ + 1, !.serr = ErrStorage]
CFail(l) == [l EXCEPT !.ccalls = @ + 1, !.cfail = @ + 1]
EvictFail(l) == [CFail(l) EXCEPT !.evictErr = TRUE]

StoreMayFail == storeFaults < MaxStoreFaults
CacheMayFail == cacheFaults < MaxCacheFaults

StoreFault == storeFaults' = storeFaults + 1 /\ UNCHANGED <<clock, nextId, cacheFaults>>
CacheFault == cacheFaults' = cacheFaults + 1 /\ UNCHANGED <<clock, nextId, storeFaults>>

\* RedisCache.InvalidateTaskList: SCAN "tasks:list*" and DEL of every key found
InvalidateKeepAll(lc) == lc
InvalidateTaskList(lc) == Restrict(lc, {k \in DOMAIN lc : ~MatchesListPattern(k)})

\* RedisCache.DeleteTask: DEL "task:<id>"
CacheDeleteNothing(tc, id) == tc
CacheDeleteTask(tc, id) == Restrict(tc, {i \in DOMAIN tc : TaskKey(i) # TaskKey(id)})

\* RedisCache.SetTask / SetTaskList: SET key document
\* client.Set(ctx, key, data, cacheTTL): the entry carries the time it was written
\* and the deadline Redis gives it
SetWithoutTTL(doc, now) == [json |-> doc.json, at |-> now, exp |-> 2 * cacheTTL]
SetWithTTL(doc, now) == [json |-> doc.json, at |-> now, exp |-> now + cacheTTL]

CacheSetNothing(c, key, v) == c
CacheSet(c, key, v) ==
  [k \in DOMAIN c \cup {key} |-> IF k = key THEN SetWithTTL(Marshal(v), clock) ELSE c[k]]

\* client.Get: Redis answers redis.Nil for a key it does not hold and for a key
\* whose deadline has passed
CacheHas(c, key) == key \in DOMAIN c /\ clock < c[key].exp

\* ----------------------------------------------------------- entering a call
Enter(p, c, label) ==
  /\ p <= clients
  /\ pc[p] \in {"idle", "done"}
  /\ nops < (IF clients = 1 THEN MaxOps ELSE MaxConcOps)
  /\ pc' = [pc EXCEPT ![p] = label]
  /\ call' = [call EXCEPT ![p] = c]
  /\ loc' = [loc EXCEPT ![p] = NoLoc]
  /\ res' = [res EXCEPT ![p] = NoRes]
  /\ pre' = [pre EXCEPT ![p] = IF clients = 1 THEN Snapshot ELSE NoSnapshot]
  /\ nops' = nops + 1
  /\ refRes' = [refRes EXCEPT ![p] = NoRes]
  /\ UNCHANGED <<sysVars, hasCache, envVars, clients, refStore, lastUpd, deleted, created>>

StartCreate(p) ==
  \E req \in CreateReqs :
    /\ ~CreateInvalid(req) =>
         nextId + Cardinality({q \in Procs : pc[q] = "c_new" /\ ~CreateInvalid(call[q].creq)})
           <= MaxTasks
    /\ Enter(p, [NoCall EXCEPT !.op = "create", !.creq = req], "c_new")

StartGet(p) ==
  \E id \in Ids :
    Enter(p, [NoCall EXCEPT !.op = "get", !.id = id],
          IF hasCache THEN "g_cache" ELSE "g_repo")

StartList(p) ==
  \E f \in Filters : Enter(p, [NoCall EXCEPT !.op = "list", !.filter = f], "l_norm")

StartUpdate(p) ==
  \E id \in Ids, req \in UpdateReqs :
    Enter(p, [NoCall EXCEPT !.op = "update", !.id = id, !.ureq = req], "u_get")

StartDelete(p) ==
  \E id \in Ids : Enter(p, [NoCall EXCEPT !.op = "delete", !.id = id], "d_repo")

StartCount(p) == Enter(p, [NoCall EXCEPT !.op = "count"], "k_repo")

Frame == UNCHANGED <<hasCache, call, pre, nops, clients>>

\* ------------------------------------------------------------- CreateTask
\* lines 120-128: validation, then NewTask (uuid.New, time.Now)
CreateNew(p) ==
  /\ pc[p] = "c_new"
  /\ LET req == call[p].creq IN
       IF CreateInvalid(req)
       THEN /\ Finish(p, Err(ErrInvalidInput, FALSE), loc[p])
            /\ UNCHANGED envVars
       ELSE \E d \in {Tick} :
              /\ clock' = clock + d
              /\ nextId' = nextId + 1
              /\ Goto(p, "c_repo",
                      [loc[p] EXCEPT !.task = NewTask(req.title, req.desc, req.assignee,
                                                      req.status, nextId, clock + d)])
              /\ UNCHANGED <<cacheFaults, storeFaults>>
  /\ UNCHANGED sysVars
  /\ Frame

\* lines 130-132: repo.Create
CreateRepo(p) ==
  /\ pc[p] = "c_repo"
  /\ \/ /\ store' = RepoCreate(store, loc[p].task)
        /\ IF InsertErr(store, loc[p].task) # ErrNone
           THEN Finish(p, Err(InsertErr(store, loc[p].task), TRUE), SFail(loc[p]))
           ELSE IF hasCache THEN Goto(p, "c_inval", SCall(loc[p]))
                            ELSE Finish(p, OkTask(loc[p].task), SCall(loc[p]))
        /\ UNCHANGED envVars
     \/ /\ StoreMayFail
        /\ StoreFault
        /\ Finish(p, Err(ErrStorage, TRUE), SFail(loc[p]))
        /\ UNCHANGED store
  /\ UNCHANGED <<taskCache, listCache>>
  /\ Frame

\* lines 135-139: InvalidateTaskList, error dropped
CreateInvalidate(p) ==
  /\ pc[p] = "c_inval"
  /\ \/ /\ listCache' = InvalidateTaskList(listCache)
        /\ Finish(p, AfterCacheWrite(ErrNone, OkTask(loc[p].task)), CCall(loc[p]))
        /\ UNCHANGED envVars
     \/ /\ CacheMayFail
        /\ CacheFault
        /\ \E K \in SUBSET DOMAIN listCache : listCache' = Restrict(listCache, K)
        /\ Finish(p, AfterCacheWrite(ErrCache, OkTask(loc[p].task)), CFail(loc[p]))
  /\ UNCHANGED <<store, taskCache>>
  /\ Frame

\* ---------------------------------------------------------------- GetTask
\* lines 145-150: cache.GetTask
GetCache(p) ==
  /\ pc[p] = "g_cache"
  /\ LET id == call[p].id IN
       \/ /\ IF IsHit(ErrNone, CacheHas(taskCache, id))
             THEN Finish(p, OkTask(Unmarshal(taskCache[id])), CCall(loc[p]))
             ELSE Goto(p, "g_repo", CCall(loc[p]))
          /\ UNCHANGED envVars
       \/ /\ CacheMayFail
          /\ CacheFault
          /\ IF IsHit(ErrCache, FALSE)
             THEN Finish(p, Err(ErrCache, TRUE), CFail(loc[p]))
             ELSE Goto(p, "g_repo", CFail(loc[p]))
  /\ UNCHANGED sysVars
  /\ Frame

\* lines 153-156: repo.GetByID
GetRepo(p) ==
  /\ pc[p] = "g_repo"
  /\ LET id == call[p].id IN
       \/ /\ IF id \in DOMAIN store
             THEN IF hasCache
                  THEN Goto(p, "g_set", [SCall(loc[p]) EXCEPT !.task = RepoGetByID(store, id)])
                  ELSE Finish(p, OkTask(RepoGetByID(store, id)),
                              [SCall(loc[p]) EXCEPT !.task = RepoGetByID(store, id)])
             ELSE Finish(p, Err(ErrTaskNotFound, FALSE),
                         [SCall(loc[p]) EXCEPT !.serr = ErrTaskNotFound])
          /\ UNCHANGED envVars
       \/ /\ StoreMayFail
          /\ StoreFault
          /\ Finish(p, Err(ErrStorage, FALSE), SFail(loc[p]))
  /\ UNCHANGED sysVars
  /\ Frame

\* lines 159-163: cache.SetTask, error dropped
GetSet(p) ==
  /\ pc[p] = "g_set"
  /\ \/ /\ taskCache' = CacheSet(taskCache, loc[p].task.id, loc[p].task)
        /\ Finish(p, AfterCacheWrite(ErrNone, OkTask(loc[p].task)), CCall(loc[p]))
        /\ UNCHANGED envVars
     \/ /\ CacheMayFail
        /\ CacheFault
        /\ Finish(p, AfterCacheWrite(ErrCache, OkTask(loc[p].task)), CFail(loc[p]))
        /\ UNCHANGED taskCache
  /\ UNCHANGED <<store, listCache>>
  /\ Frame

\* -------------------------------------------------------------- ListTasks
\* lines 168-186: defaults, clamps, status validation
ListNormalize(p) ==
  /\ pc[p] = "l_norm"
  /\ LET filter == Normalize(call[p].filter) IN
       IF ListInvalid(filter)
       THEN Finish(p, Err(ErrInvalidInput, FALSE), [loc[p] EXCEPT !.filter = filter])
       ELSE Goto(p, IF hasCache THEN "l_cache" ELSE "l_count",
                 [loc[p] EXCEPT !.filter = filter])
  /\ UNCHANGED <<sysVars, envVars>>
  /\ Frame

\* lines 189-203: cache.GetTaskList under the derived key
ListCache(p) ==
  /\ pc[p] = "l_cache"
  /\ LET cacheKey == GenerateCacheKey(loc[p].filter) IN
       \/ /\ IF IsHit(ErrNone, CacheHas(listCache, cacheKey))
             THEN Finish(p, OkResp(HitResponse(Unmarshal(listCache[cacheKey]), loc[p].filter)),
                         CCall(loc[p]))
             ELSE Goto(p, "l_count", CCall(loc[p]))
          /\ UNCHANGED envVars
       \/ /\ CacheMayFail
          /\ CacheFault
          /\ IF IsHit(ErrCache, FALSE)
             THEN Finish(p, Err(ErrCache, TRUE), CFail(loc[p]))
             ELSE Goto(p, "l_count", CFail(loc[p]))
  /\ UNCHANGED sysVars
  /\ Frame

\* repo.GetAll, first query: SELECT COUNT(*) ... WHERE
ListCount(p) ==
  /\ pc[p] = "l_count"
  /\ \/ /\ Goto(p, "l_select",
                [SCall(loc[p]) EXCEPT !.total = RepoCountWhere(store, loc[p].filter)])
        /\ UNCHANGED envVars
     \/ /\ StoreMayFail
        /\ StoreFault
        /\ Finish(p, Err(ErrStorage, TRUE), SFail(loc[p]))
  /\ UNCHANGED sysVars
  /\ Frame

\* repo.GetAll, second query: SELECT ... ORDER BY created_at DESC LIMIT OFFSET
ListSelect(p) ==
  /\ pc[p] = "l_select"
  /\ LET tasks == RepoSelectPage(store, loc[p].filter) IN
       \/ /\ IF hasCache
             THEN Goto(p, "l_set", [loc[p] EXCEPT !.tasks = tasks])
             ELSE Finish(p, OkResp(MissResponse(tasks, loc[p].total, loc[p].filter)),
                         [loc[p] EXCEPT !.tasks = tasks])
          /\ UNCHANGED envVars
       \/ /\ StoreMayFail
          /\ StoreFault
          /\ Finish(p, Err(ErrStorage, TRUE), [loc[p] EXCEPT !.serr = ErrStorage])
  /\ UNCHANGED sysVars
  /\ Frame

\* lines 212-228: cache.SetTaskList, error dropped, then the response
ListSet(p) ==
  /\ pc[p] = "l_set"
  /\ LET resp == OkResp(MissResponse(loc[p].tasks, loc[p].total, loc[p].filter)) IN
       \/ /\ listCache' = CacheSet(listCache, GenerateCacheKey(loc[p].filter), loc[p].tasks)
          /\ Finish(p, AfterCacheWrite(ErrNone, resp), CCall(loc[p]))
          /\ UNCHANGED envVars
       \/ /\ CacheMayFail
          /\ CacheFault
          /\ Finish(p, AfterCacheWrite(ErrCache, resp), CFail(loc[p]))
          /\ UNCHANGED listCache
  /\ UNCHANGED <<store, taskCache>>
  /\ Frame

\* ------------------------------------------------------------- UpdateTask
\* lines 234-237: repo.GetByID
UpdateGet(p) ==
  /\ pc[p] = "u_get"
  /\ LET id == call[p].id IN
       \/ /\ IF id \in DOMAIN store
             THEN Goto(p, "u_apply", [SCall(loc[p]) EXCEPT !.task = RepoGetByID(store, id)])
             ELSE Finish(p, Err(ErrTaskNotFound, FALSE),
                         [SCall(loc[p]) EXCEPT !.serr = ErrTaskNotFound])
          /\ UNCHANGED envVars
       \/ /\ StoreMayFail
          /\ StoreFault
          /\ Finish(p, Err(ErrStorage, FALSE), SFail(loc[p]))
  /\ UNCHANGED sysVars
  /\ Frame

\* lines 240-256: apply the request's fields, validate the status, time.Now
UpdateApply(p) ==
  /\ pc[p] = "u_apply"
  /\ LET req == call[p].ureq IN
       IF UpdateInvalid(req)
       THEN /\ Finish(p, Err(ErrInvalidInput, FALSE), loc[p])
            /\ UNCHANGED envVars
       ELSE \E d \in {Tick} :
              /\ clock' = clock + d
              /\ Goto(p, "u_repo",
                      [loc[p] EXCEPT !.task = [ApplyUpdate(loc[p].task, req)
                                                 EXCEPT !.updatedAt = clock + d]])
              /\ UNCHANGED <<nextId, cacheFaults, storeFaults>>
  /\ UNCHANGED sysVars
  /\ Frame

\* lines 258-260: repo.Update
UpdateRepo(p) ==
  /\ pc[p] = "u_repo"
  /\ LET rows == RowsAffected(store, loc[p].task.id) IN
       \/ /\ store' = RepoUpdate(store, loc[p].task)
          /\ IF ExecErr(rows) # ErrNone
             THEN Finish(p, Err(ExecErr(rows), TRUE),
                         [SCall(loc[p]) EXCEPT !.serr = ExecErr(rows), !.rows = rows])
             ELSE IF hasCache
                  THEN Goto(p, "u_del", [SCall(loc[p]) EXCEPT !.rows = rows])
                  ELSE Finish(p, OkTask(loc[p].task), [SCall(loc[p]) EXCEPT !.rows = rows])
          /\ UNCHANGED envVars
       \/ /\ StoreMayFail
          /\ StoreFault
          /\ Finish(p, Err(ErrStorage, TRUE), SFail(loc[p]))
          /\ UNCHANGED store
  /\ UNCHANGED <<taskCache, listCache>>
  /\ Frame

\* line 264: cache.DeleteTask, error dropped
UpdateEvict(p) ==
  /\ pc[p] = "u_del"
  /\ \/ /\ taskCache' = CacheDeleteTask(taskCache, call[p].id)
        /\ IF Discard(ErrNone) = ErrNone
           THEN Goto(p, "u_inval", CCall(loc[p]))
           ELSE Finish(p, Err(ErrCache, TRUE), CCall(loc[p]))
        /\ UNCHANGED envVars
     \/ /\ CacheMayFail
        /\ CacheFault
        /\ IF Discard(ErrCache) = ErrNone
           THEN Goto(p, "u_inval", EvictFail(loc[p]))
           ELSE Finish(p, Err(ErrCache, TRUE), EvictFail(loc[p]))
        /\ UNCHANGED taskCache
  /\ UNCHANGED <<store, listCache>>
  /\ Frame

\* lines 265-268: cache.InvalidateTaskList, error dropped
UpdateInvalidate(p) ==
  /\ pc[p] = "u_inval"
  /\ \/ /\ listCache' = InvalidateTaskList(listCache)
        /\ Finish(p, AfterCacheWrite(ErrNone, OkTask(loc[p].task)), CCall(loc[p]))
        /\ UNCHANGED envVars
     \/ /\ CacheMayFail
        /\ CacheFault
        /\ \E K \in SUBSET DOMAIN listCache : listCache' = Restrict(listCache, K)
        /\ Finish(p, AfterCacheWrite(ErrCache, OkTask(loc[p].task)), CFail(loc[p]))
  /\ UNCHANGED <<store, taskCache>>
  /\ Frame

\* ------------------------------------------------------------- DeleteTask
\* lines 273-275: repo.Delete
DeleteRepo(p) ==
  /\ pc[p] = "d_repo"
  /\ LET rows == RowsAffected(store, call[p].id) IN
       \/ /\ store' = RepoDelete(store, call[p].id)
          /\ IF ExecErr(rows) # ErrNone
             THEN Finish(p, Err(ExecErr(rows), FALSE),
                         [SCall(loc[p]) EXCEPT !.serr = ExecErr(rows), !.rows = rows])
             ELSE IF hasCache
                  THEN Goto(p, "d_del", [SCall(loc[p]) EXCEPT !.rows = rows])
                  ELSE Finish(p, OkNothing, [SCall(loc[p]) EXCEPT !.rows = rows])
          /\ UNCHANGED envVars
       \/ /\ StoreMayFail
          /\ StoreFault
          /\ Finish(p, Err(ErrStorage, FALSE), SFail(loc[p]))
          /\ UNCHANGED store
  /\ UNCHANGED <<taskCache, listCache>>
  /\ Frame

\* line 279: cache.DeleteTask, error dropped
DeleteEvict(p) ==
  /\ pc[p] = "d_del"
  /\ \/ /\ taskCache' = CacheDeleteTask(taskCache, call[p].id)
        /\ IF Discard(ErrNone) = ErrNone
           THEN Goto(p, "d_inval", CCall(loc[p]))
           ELSE Finish(p, Err(ErrCache, TRUE), CCall(loc[p]))
        /\ UNCHANGED envVars
     \/ /\ CacheMayFail
        /\ CacheFault
        /\ IF Discard(ErrCache) = ErrNone
           THEN Goto(p, "d_inval", EvictFail(loc[p]))
           ELSE Finish(p, Err(ErrCache, TRUE), EvictFail(loc[p]))
        /\ UNCHANGED taskCache
  /\ UNCHANGED <<store, listCache>>
  /\ Frame

\* lines 280-283: cache.InvalidateTaskList, error dropped
DeleteInvalidate(p) ==
  /\ pc[p] = "d_inval"
  /\ \/ /\ listCache' = InvalidateTaskList(listCache)
        /\ Finish(p, AfterCacheWrite(ErrNone, OkNothing), CCall(loc[p]))
        /\ UNCHANGED envVars
     \/ /\ CacheMayFail
        /\ CacheFault
        /\ \E K \in SUBSET DOMAIN listCache : listCache' = Restrict(listCache, K)
        /\ Finish(p, AfterCacheWrite(ErrCache, OkNothing), CFail(loc[p]))
  /\ UNCHANGED <<store, taskCache>>
  /\ Frame

\* ----------------------------------------------------------- GetTaskCount
CountRepo(p) ==
  /\ pc[p] = "k_repo"
  /\ \/ /\ Finish(p, OkCount(RepoCount(store)), SCall(loc[p]))
        /\ UNCHANGED envVars
     \/ /\ StoreMayFail
        /\ StoreFault
        /\ Finish(p, Err(ErrStorage, FALSE), SFail(loc[p]))
  /\ UNCHANGED sysVars
  /\ Frame

\* ---------------------------------------------------------- specifications
Next ==
  \E p \in Procs :
    \/ StartCreate(p) \/ StartGet(p) \/ StartList(p)
    \/ StartUpdate(p) \/ StartDelete(p) \/ StartCount(p)
    \/ CreateNew(p) \/ CreateRepo(p) \/ CreateInvalidate(p)
    \/ GetCache(p) \/ GetRepo(p) \/ GetSet(p)
    \/ ListNormalize(p) \/ ListCache(p) \/ ListCount(p) \/ ListSelect(p) \/ ListSet(p)
    \/ UpdateGet(p) \/ UpdateApply(p) \/ UpdateRepo(p) \/ UpdateEvict(p) \/ UpdateInvalidate(p)
    \/ DeleteRepo(p) \/ DeleteEvict(p) \/ DeleteInvalidate(p)
    \/ CountRepo(p)

\* one client, each call returning before the next is made
Spec == Init /\ [][Next]_vars

\* two clients calling concurrently
ConcSpec == ConcInit /\ [][Next]_vars

\* ------------------------------------------------------- the passing of time
\* the run is followed for a little more than one TTL
Horizon == cacheTTL + cacheTTL \div 4

\* an entry Redis still holds
Live(c) == \E k \in DOMAIN c : clock < c[k].exp

\* half a TTL passes while no call is in progress and Redis holds an entry
TimePasses ==
  /\ \A p \in Procs : pc[p] \in {"idle", "done"}
  /\ Live(taskCache) \/ Live(listCache)
  /\ clock + cacheTTL \div 2 <= Horizon
  /\ clock' = clock + cacheTTL \div 2
  /\ UNCHANGED <<sysVars, hasCache, nextId, cacheFaults, storeFaults, pc, call, loc, res,
                 pre, nops, clients, histVars>>

\* the one client of a service with a cache has read the row of the table with
\* GetTask, which missed and put the row in the cache
TtlInit ==
  /\ store = [i \in {1} |-> SeedRow]
  /\ taskCache = [i \in {1} |-> SetWithTTL(Marshal(SeedRow), 0)]
  /\ listCache = EmptyFn
  /\ hasCache = TRUE
  /\ clock = 0
  /\ nextId = 2
  /\ cacheFaults = 0
  /\ storeFaults = 0
  /\ pc = [p \in Procs |-> IF p = 1 THEN "done" ELSE "idle"]
  /\ call = [p \in Procs |-> IF p = 1 THEN [NoCall EXCEPT !.op = "get", !.id = 1] ELSE NoCall]
  /\ loc = [p \in Procs |->
             IF p = 1 THEN [NoLoc EXCEPT !.task = SeedRow, !.scalls = 1, !.ccalls = 2]
             ELSE NoLoc]
  /\ res = [p \in Procs |-> IF p = 1 THEN OkTask(SeedRow) ELSE NoRes]
  /\ pre = [p \in Procs |->
             IF p = 1 THEN [NoSnapshot EXCEPT !.store = [i \in {1} |-> SeedRow]]
             ELSE NoSnapshot]
  /\ nops = 1
  /\ clients = 1
  /\ refStore = [i \in {1} |-> SeedRow]
  /\ refRes = [p \in Procs |-> IF p = 1 THEN OkTask(SeedRow) ELSE NoRes]
  /\ lastUpd = [i \in Ids |-> NoUpd]
  /\ deleted = [i \in Ids |-> NoDel]
  /\ created = <<>>

TtlNext == Next \/ TimePasses

\* one client, with minutes passing between its calls
TtlSpec == TtlInit /\ [][TtlNext]_vars

\* ------------------------------------------------------------- properties
Done(p) == pc[p] = "done"

Returned(p, op) == Done(p) /\ call[p].op = op

Succeeded(p) == Done(p) /\ res[p].kind = ErrNone

IsMutation(op) == op \in {"create", "update", "delete"}

\* the closed enumeration of the data model
StatusEnum == {"pending", "in_progress", "completed", "cancelled"}

\* store and cache are as they were when the call was entered
Untouched(p) ==
  /\ store = pre[p].store
  /\ taskCache = pre[p].taskCache
  /\ listCache = pre[p].listCache

\* what the Record Store's GetAll yields now for a filter, as a response
StoreResponse(filter) ==
  LET f == Normalize(filter)
  IN MissResponse(RepoSelectPage(store, f), RepoCountWhere(store, f), f)

\* what ListTasks returns if called now, with cache and store answering
ListTasksNow(filter) ==
  LET f == Normalize(filter)
      cacheKey == GenerateCacheKey(f)
  IN IF hasCache /\ IsHit(ErrNone, CacheHas(listCache, cacheKey))
     THEN HitResponse(Unmarshal(listCache[cacheKey]), f)
     ELSE StoreResponse(filter)

CachedAtEntry(p, filter) == GenerateCacheKey(Normalize(filter)) \in DOMAIN pre[p].listCache

PageAtEntry(p, filter) == Unmarshal(pre[p].listCache[GenerateCacheKey(Normalize(filter))])

\* C1: single client, no cache call has failed: when CreateTask, UpdateTask or
\* DeleteTask has returned success, a ListTasks made next with a filter whose
\* page was cached before the mutation returns the page and total the store's
\* GetAll yields now.
C1_ListAfterMutation ==
  \A p \in Procs :
    (Succeeded(p) /\ IsMutation(call[p].op) /\ hasCache /\ cacheFaults = 0) =>
      \A f \in Filters :
        (~ListInvalid(Normalize(f)) /\ CachedAtEntry(p, f)) =>
          ListTasksNow(f) = StoreResponse(f)

\* a mutation returned success and a page cached before it is not the store's page now
C1_Witness ==
  \E p \in Procs :
    /\ Succeeded(p) /\ IsMutation(call[p].op) /\ hasCache /\ cacheFaults = 0
    /\ \E f \in Filters :
         /\ CachedAtEntry(p, f)
         /\ PageAtEntry(p, f) # StoreResponse(f).tasks

\* the store answered every call the method made (no infrastructure failure)
StoreAnswered(p) == loc[p].serr # ErrStorage

\* C2 as stated: single client: GetTask(id) has populated the record cache and
\* UpdateTask(id, req) has then returned success: a GetTask(id) after it returns the
\* updated record (the request's fields applied, a later update timestamp), never the
\* record cached before the update.
C2_Original ==
  \A p \in Procs :
    LET u == lastUpd[call[p].id] IN
      (Returned(p, "get") /\ StoreAnswered(p) /\ u.task # NoTask /\ u.old # NoTask) =>
        /\ res[p].kind = ErrNone
        /\ res[p].task = PgRow(u.task)
        /\ res[p].task # u.old
        /\ res[p].task.updatedAt > u.old.updatedAt

\* C2 where the cache answered the eviction: the same, for an UpdateTask whose
\* eviction of the record entry (cache.DeleteTask) did not fail.
C2_GetAfterUpdate ==
  \A p \in Procs :
    LET u == lastUpd[call[p].id] IN
      (Returned(p, "get") /\ StoreAnswered(p) /\ u.task # NoTask /\ u.old # NoTask
         /\ u.evicted) =>
        /\ res[p].kind = ErrNone
        /\ res[p].task = PgRow(u.task)
        /\ res[p].task # u.old
        /\ res[p].task.updatedAt > u.old.updatedAt

\* GetTask returned after an UpdateTask that found the record cached and evicted it
C2_Witness ==
  \E p \in Procs :
    LET u == lastUpd[call[p].id] IN
      /\ Returned(p, "get") /\ res[p].kind = ErrNone
      /\ u.task # NoTask /\ u.old # NoTask /\ u.evicted
      /\ res[p].task.status # u.old.status

\* C3 as stated: single client: DeleteTask(id) has returned success: every GetTask(id)
\* after it fails with NotFound, also when the record was in the record cache.
C3_Original ==
  \A p \in Procs :
    (Returned(p, "get") /\ StoreAnswered(p) /\ deleted[call[p].id].done) =>
      res[p].kind = ErrTaskNotFound

\* C3 where the cache answered the eviction: the same, for a DeleteTask whose
\* eviction of the record entry (cache.DeleteTask) did not fail.
C3_GetAfterDelete ==
  \A p \in Procs :
    (Returned(p, "get") /\ StoreAnswered(p) /\ deleted[call[p].id].done
       /\ deleted[call[p].id].evicted) =>
      res[p].kind = ErrTaskNotFound

\* GetTask returned NotFound for a record that was cached when it was deleted
C3_Witness ==
  \E p \in Procs :
    /\ Returned(p, "get") /\ res[p].kind = ErrTaskNotFound
    /\ deleted[call[p].id].done /\ deleted[call[p].id].cached /\ deleted[call[p].id].evicted

\* C4: two clients, any interleaving: every row of the tasks table has a status of
\* the enumeration, and a CreateTask with empty status hands a pending record to
\* the store.
C4_StatusInEnum ==
  /\ \A id \in DOMAIN store : store[id].status \in StatusEnum
  /\ \A p \in Procs :
       (call[p].op = "create" /\ call[p].creq.status = "") =>
         /\ pc[p] \in {"c_repo", "c_inval"} => loc[p].task.status = "pending"
         /\ Succeeded(p) => res[p].task.status = "pending"

\* a create with empty status has returned and an update has changed a row's status
C4_Witness ==
  /\ \E p \in Procs :
       Returned(p, "create") /\ Succeeded(p) /\ call[p].creq.status = ""
         /\ res[p].task.id \in DOMAIN store
  /\ \E id \in DOMAIN store : store[id].status = "completed"

\* the call supplies a status outside the enumeration
BadStatus(c) ==
  \/ c.op = "list" /\ c.filter.status \notin StatusEnum \cup {Nil}
  \/ c.op = "create" /\ c.creq.status \notin StatusEnum \cup {""}
  \/ c.op = "update" /\ c.ureq.status \notin StatusEnum \cup {Nil}

\* C5 as stated: single client: a ListTasks, CreateTask or UpdateTask call that supplies
\* a status outside the enumeration fails with InvalidInput and leaves store and
\* cache as they were.
C5_Original ==
  \A p \in Procs :
    (Done(p) /\ StoreAnswered(p) /\ BadStatus(call[p])) =>
      res[p].kind = ErrInvalidInput /\ Untouched(p)

\* C5 amended: the same, for UpdateTask when the id is in the store (an absent id
\* fails with NotFound before the status is looked at).
C5_BadStatusRejected ==
  \A p \in Procs :
    (Done(p) /\ StoreAnswered(p) /\ BadStatus(call[p])
       /\ (call[p].op = "update" => call[p].id \in DOMAIN pre[p].store)) =>
      res[p].kind = ErrInvalidInput /\ Untouched(p)

\* an UpdateTask carrying a bad status and a valid title on a stored, cached record
C5_Witness ==
  \E p \in Procs :
    /\ Returned(p, "update") /\ BadStatus(call[p]) /\ call[p].ureq.title \notin {Nil, ""}
    /\ call[p].id \in DOMAIN pre[p].store
    /\ call[p].id \in DOMAIN pre[p].taskCache
    /\ res[p].kind = ErrInvalidInput

\* C6: single client: CreateTask with an empty title fails with InvalidInput, makes no
\* store call and no cache call, and leaves store and cache as they were.
C6_EmptyTitle ==
  \A p \in Procs :
    (Returned(p, "create") /\ call[p].creq.title = "") =>
      /\ res[p].kind = ErrInvalidInput
      /\ loc[p].scalls = 0 /\ loc[p].ccalls = 0
      /\ Untouched(p)

\* such a call returned while the table and the collection cache were not empty
C6_Witness ==
  \E p \in Procs :
    /\ Returned(p, "create") /\ call[p].creq.title = ""
    /\ res[p].kind = ErrInvalidInput
    /\ DOMAIN store # {} /\ DOMAIN listCache # {}

\* C7: single client: UpdateTask, DeleteTask and GetTask on an id that is neither in
\* the store nor in the cache fail with NotFound (the sentinel itself, not a
\* StorageError) and leave store and cache as they were; the repository's Update
\* and Delete report NotFound exactly when no row was affected.
C7_NotFound ==
  \A p \in Procs :
    /\ (Done(p) /\ call[p].op \in {"update", "delete", "get"} /\ StoreAnswered(p)
          /\ call[p].id \notin DOMAIN pre[p].store
          /\ call[p].id \notin DOMAIN pre[p].taskCache) =>
         /\ res[p].kind = ErrTaskNotFound /\ ~res[p].wrapped
         /\ res[p].kind # ErrStorage
         /\ Untouched(p)
    /\ (Done(p) /\ call[p].op \in {"update", "delete"} /\ loc[p].rows >= 0) =>
         (loc[p].rows = 0 <=> res[p].kind = ErrTaskNotFound)

\* DeleteTask of an absent id affected no row and failed with NotFound while the
\* table had a row
C7_Witness ==
  \E p \in Procs :
    /\ Returned(p, "delete") /\ res[p].kind = ErrTaskNotFound /\ loc[p].rows = 0
    /\ DOMAIN store # {}

\* the request is one the method's validation rejects
Rejected(c) ==
  \/ BadStatus(c)
  \/ c.op = "create" /\ c.creq.title = ""

\* C8: single client: no cache failure reaches the caller: when every store call of
\* the method succeeded and the request is valid, the method returns success
\* whichever of its cache calls failed.
C8_CacheErrorsSwallowed ==
  \A p \in Procs :
    Done(p) =>
      /\ res[p].kind # ErrCache
      /\ (loc[p].serr = ErrNone /\ ~Rejected(call[p])) => res[p].kind = ErrNone

\* a method made two cache calls, both failed, and it returned success
C8_Witness ==
  \E p \in Procs :
    /\ Succeeded(p) /\ loc[p].cfail = 2 /\ loc[p].ccalls = 2

\* C9 as stated: single client: whichever cache calls fail, every call returns what
\* a service without a cache returns for the same sequence of calls.
C9_Original ==
  \A p \in Procs : (Done(p) /\ hasCache) => res[p] = refRes[p]

\* C10 as stated: a service built with a nil cache makes no cache call, and a
\* service with a working cache returns for every call what the service without
\* a cache returns for the same sequence of calls.
C10_Original ==
  /\ ~hasCache =>
       /\ taskCache = EmptyFn /\ listCache = EmptyFn
       /\ \A p \in Procs : loc[p].ccalls = 0
  /\ \A p \in Procs : (Done(p) /\ hasCache /\ cacheFaults = 0) => res[p] = refRes[p]

\* the error a store call of the method ended with came from the store
StoreFailed(p) == loc[p].serr \in {ErrStorage, ErrTaskNotFound}

\* C11: single client: when the store call of a mutation fails (Create in CreateTask,
\* GetByID or Update in UpdateTask, Delete in DeleteTask), the method returns that
\* error, has made no cache call, and every record entry and collection entry of
\* the cache is as it was when the method was entered.
C11_NoCacheOpOnStoreFailure ==
  \A p \in Procs :
    (Done(p) /\ IsMutation(call[p].op) /\ StoreFailed(p)) =>
      /\ res[p].kind = loc[p].serr
      /\ loc[p].ccalls = 0
      /\ taskCache = pre[p].taskCache
      /\ listCache = pre[p].listCache

\* repo.Update failed with an infrastructure error while the service had a cache
\* holding a record entry and a collection entry
C11_Witness ==
  \E p \in Procs :
    /\ Returned(p, "update") /\ hasCache /\ loc[p].serr = ErrStorage /\ loc[p].scalls = 2
    /\ taskCache # EmptyFn /\ listCache # EmptyFn

\* no UpdateTask and no DeleteTask has succeeded on the id
Unmutated(id) == lastUpd[id].task = NoTask /\ ~deleted[id].done

\* the record a successful CreateTask returned under the id, if there is one
CreatedAs(id) == { created[k] : k \in { j \in DOMAIN created : created[j].id = id } }

\* C12 as stated: single client: CreateTask has returned a record and no mutation of
\* it has followed: GetTask of the returned id returns a record equal to it in
\* every field.
C12_Original ==
  \A p \in Procs :
    (Returned(p, "get") /\ StoreAnswered(p) /\ Unmutated(call[p].id)) =>
      \A t \in CreatedAs(call[p].id) : res[p].kind = ErrNone /\ res[p].task = t

\* C12 to the precision of the column: the same, with the two timestamps compared
\* after the store has cut them to whole microseconds.
C12_RoundTripMicro ==
  \A p \in Procs :
    (Returned(p, "get") /\ StoreAnswered(p) /\ Unmutated(call[p].id)) =>
      \A t \in CreatedAs(call[p].id) : res[p].kind = ErrNone /\ res[p].task = PgRow(t)

\* GetTask returned a record CreateTask had returned with a creation time that is
\* not a whole number of microseconds
C12_Witness ==
  \E p \in Procs :
    /\ Returned(p, "get") /\ res[p].kind = ErrNone /\ Unmutated(call[p].id)
    /\ \E t \in CreatedAs(call[p].id) : t.createdAt # PgTime(t.createdAt)

\* what a GetTask(id) made now returns when the store answers: the cached record
\* on a hit, the row (or NotFound) on a miss and when the cache read fails
GetTaskNow(id) ==
  LET fromStore == IF id \in DOMAIN store THEN OkTask(RepoGetByID(store, id))
                   ELSE Err(ErrTaskNotFound, FALSE)
  IN IF hasCache /\ IsHit(ErrNone, CacheHas(taskCache, id))
     THEN {OkTask(Unmarshal(taskCache[id])), fromStore}
     ELSE {fromStore}

\* C13 as stated: single client: GetTask(id) has returned a record: a GetTask(id)
\* repeated with no mutation in between returns the same record in every field,
\* whether the cache serves it or the store does.
C13_Original ==
  \A p \in Procs :
    (Returned(p, "get") /\ res[p].kind = ErrNone) =>
      \A r \in GetTaskNow(call[p].id) : r = res[p]

\* C13 with a cache that has answered every call: the same, in runs where no
\* cache call has failed.
C13_RepeatedGetNoFault ==
  \A p \in Procs :
    (Returned(p, "get") /\ res[p].kind = ErrNone /\ cacheFaults = 0) =>
      \A r \in GetTaskNow(call[p].id) : r = res[p]

\* GetTask was served from the cache, and the entry it hit is still there
C13_Witness ==
  \E p \in Procs :
    /\ Returned(p, "get") /\ res[p].kind = ErrNone /\ cacheFaults = 0
    /\ loc[p].scalls = 0 /\ call[p].id \in DOMAIN taskCache
    /\ res[p].task.status = TaskStatusCompleted

Max(a, b) == IF a > b THEN a ELSE b

CeilDiv(a, b) == (a + b - 1) \div b

\* C14 as stated: single client: with n rows matching the filter, every successful
\* ListTasks with page p and page size s, repeated calls included, returns
\* min(s, max(0, n - (p-1)*s)) records, total = n and totalPages = ceil(n/s).
C14_Original ==
  \A p \in Procs :
    (Returned(p, "list") /\ Succeeded(p)) =>
      LET f == loc[p].filter
          n == RepoCountWhere(store, f)
      IN /\ Len(res[p].resp.tasks) = Min(f.size, Max(0, n - (f.page - 1) * f.size))
         /\ res[p].resp.total = n
         /\ res[p].resp.totalPages = CeilDiv(n, f.size)

\* the page and page size the defaults and clamps of ListTasks give a filter
NormalPage(f) == IF f.isNil \/ f.page < 1 THEN 1 ELSE f.page

NormalSize(f) ==
  IF f.isNil \/ f.size < 1 THEN 10 ELSE IF f.size > 100 THEN 100 ELSE f.size

\* C15: ListTasks normalizes the filter before it touches cache or store: page < 1
\* becomes 1, page size < 1 becomes 10, page size > 100 becomes 100, a nil filter
\* becomes page 1, size 10, no predicates; the cache key, the store query and the
\* response's Page and PageSize use the normalized values.
C15_FilterNormalized ==
  \A p \in Procs :
    LET f == call[p].filter
        g == loc[p].filter
    IN /\ pc[p] = "l_norm" => loc[p].scalls = 0 /\ loc[p].ccalls = 0
       /\ (call[p].op = "list" /\ pc[p] \notin {"idle", "l_norm"}) =>
            /\ g.page = NormalPage(f) /\ g.size = NormalSize(f)
            /\ g.status = (IF f.isNil THEN Nil ELSE f.status)
            /\ g.assignee = (IF f.isNil THEN Nil ELSE f.assignee)
            /\ Succeeded(p) =>
                 /\ res[p].resp.page = NormalPage(f)
                 /\ res[p].resp.pageSize = NormalSize(f)
                 /\ loc[p].scalls > 0 =>
                      res[p].resp.tasks =
                        LimitOffset(OrderByCreatedDesc(Matching(store, g)), NormalSize(f),
                                    (NormalPage(f) - 1) * NormalSize(f))
            /\ (Succeeded(p) /\ loc[p].ccalls = 2 /\ loc[p].cfail = 0) =>
                 GenerateCacheKey(g) \in DOMAIN listCache

\* ListTasks asked for page 0 with page size 150, the store served it as page 1
\* with page size 100 and returned a record
C15_Witness ==
  \E p \in Procs :
    /\ Returned(p, "list") /\ Succeeded(p) /\ loc[p].scalls > 0
    /\ call[p].filter.size > 100 /\ call[p].filter.page < 1
    /\ res[p].resp.pageSize = 100 /\ res[p].resp.page = 1
    /\ Len(res[p].resp.tasks) > 0

\* filters GenerateCacheKey is applied to: a nil filter, and every combination of
\* absent, empty, plain and separator-carrying predicates with page numbers and
\* sizes whose digits can be confused
KeyStatuses == {Nil, "", TaskStatusPending, TaskStatusCompleted, "pending:assignee:x"}

KeyAssignees == {Nil, "", "x", "y", "x:page:1:size:1", "x:page:1"}

KeyPages == {0 - 1, 0, 1, 2, 11}

KeySizes == {0, 1, 10, 11, 100}

KeyFilters ==
  {NilFilter} \cup
  [isNil : {FALSE}, status : KeyStatuses, assignee : KeyAssignees,
   page : KeyPages, size : KeySizes]

FilterFields == {"status", "assignee", "page", "size"}

FieldsDiffering(f, g) == {n \in FilterFields : f[n] # g[n]}

\* GenerateCacheKey over KeyFilters: equal fields give equal keys, a difference in
\* exactly one field gives different keys, and the keys are the strings the code
\* concatenates
KeysSeparate ==
  /\ \A f, g \in KeyFilters :
       /\ (f.isNil = g.isNil /\ FieldsDiffering(f, g) = {}) =>
            GenerateCacheKey(f) = GenerateCacheKey(g)
       /\ (~f.isNil /\ ~g.isNil /\ Cardinality(FieldsDiffering(f, g)) = 1) =>
            GenerateCacheKey(f) # GenerateCacheKey(g)
  /\ GenerateCacheKey(NilFilter) = "tasks:list:all"
  /\ GenerateCacheKey([isNil |-> FALSE, status |-> TaskStatusCompleted, assignee |-> "x",
                       page |-> 1, size |-> 10])
       = "tasks:list:status:completed:assignee:x:page:1:size:10"

\* C16: GenerateCacheKey gives two filters equal in status, assignee, page and page
\* size the same key, gives two filters that differ in exactly one of these fields
\* (present or absent, or in value) different keys, and gives a nil filter the key
\* "tasks:list:all"; every key in the collection cache is the key of one filter.
C16_KeySeparation ==
  /\ KeysSeparate
  /\ \A k \in DOMAIN listCache :
       Cardinality({Normalize(f) : f \in {g \in Filters : GenerateCacheKey(Normalize(g)) = k}}) = 1

\* the collection cache holds the pages of two filters that differ in the page only
C16_Witness ==
  \E f, g \in Filters :
    /\ ~f.isNil /\ ~g.isNil /\ FieldsDiffering(f, g) = {"page"}
    /\ GenerateCacheKey(Normalize(f)) \in DOMAIN listCache
    /\ GenerateCacheKey(Normalize(g)) \in DOMAIN listCache
    /\ GenerateCacheKey(Normalize(f)) # GenerateCacheKey(Normalize(g))

\* totals and page sizes the page arithmetic of the miss path is applied to
PageTotals == 0..30

PageSizes == {1, 7, 10, 100}

\* the miss path's totalPages over PageTotals and PageSizes: the least number of
\* pages of the size that hold the total, and 1 for a total of 0
MissPagesCeil ==
  /\ \A n \in PageTotals, s \in PageSizes :
       LET r == MissResponse(<<>>, n, [NilFilter EXCEPT !.isNil = FALSE, !.page = 1, !.size = s])
       IN /\ r.total = n
          /\ n = 0 => r.totalPages = 1
          /\ n > 0 => r.totalPages * s >= n /\ (r.totalPages - 1) * s < n
  /\ MissResponse(<<>>, 25, [NilFilter EXCEPT !.isNil = FALSE, !.page = 1, !.size = 10]).totalPages = 3

\* C17: single client: a ListTasks served by the store (cache miss, cache error or no
\* cache) returns total equal to the store's count of the rows matching the filter
\* and totalPages = ceil(total / pageSize), except that totalPages is 1 when total is 0.
C17_MissTotals ==
  /\ MissPagesCeil
  /\ \A p \in Procs :
       (Returned(p, "list") /\ Succeeded(p) /\ loc[p].scalls > 0) =>
         LET f == loc[p].filter
             n == RepoCountWhere(store, f)
         IN /\ res[p].resp.total = n
            /\ res[p].resp.totalPages = (IF n = 0 THEN 1 ELSE CeilDiv(n, f.size))

\* with a cache, ListTasks missed and the store counted no row matching the filter
\* although the table has a row
C17_Witness ==
  \E p \in Procs :
    /\ Returned(p, "list") /\ Succeeded(p) /\ loc[p].scalls > 0 /\ hasCache
    /\ res[p].resp.total = 0 /\ res[p].resp.totalPages = 1
    /\ DOMAIN store # {}

\* C18: single client: every record a successful CreateTask returned has a non-empty
\* identifier, different from the identifier of the record any other successful
\* CreateTask returned, and a creation time equal to its update time.
C18_FreshIdEqualTimes ==
  /\ \A k \in DOMAIN created :
       /\ created[k].id # NoTask.id
       /\ created[k].createdAt = created[k].updatedAt
       /\ \A j \in DOMAIN created : j # k => created[j].id # created[k].id
  /\ \A p \in Procs :
       (Returned(p, "create") /\ Succeeded(p)) =>
         /\ res[p].task = created[Len(created)]
         /\ res[p].task.id \notin DOMAIN pre[p].store

\* two CreateTask calls have returned records, the second after the first was deleted
C18_Witness ==
  /\ Len(created) = 2
  /\ created[1].id # created[2].id
  /\ created[1].createdAt < created[2].createdAt
  /\ deleted[created[1].id].done

\* C19 as stated: after any sequence of CreateTask, UpdateTask and DeleteTask calls,
\* every row of the tasks table has a non-empty title.
C19_Original ==
  \A id \in DOMAIN store : store[id].title # ""

\* C19 at creation: every record a successful CreateTask returned has a non-empty
\* title.
C19_TitleAtCreation ==
  \A k \in DOMAIN created : created[k].title # ""

\* C20 as stated: two clients, any interleaving: no step replaces the update time
\* stored for a record by an earlier one.
C20_Original ==
  [][\A id \in DOMAIN store \cap DOMAIN store' :
       store'[id].updatedAt >= store[id].updatedAt]_vars

\* C21: two clients, any interleaving: no step changes the identifier or the
\* creation time of a row of the tasks table, and a successful UpdateTask returns
\* the record under the identifier it was called with.
C21_IdAndCreationKept ==
  [][/\ \A id \in DOMAIN store \cap DOMAIN store' :
          /\ store'[id].id = store[id].id
          /\ store'[id].createdAt = store[id].createdAt
     /\ \A p \in Procs :
          (pc'[p] = "done" /\ call'[p].op = "update" /\ res'[p].kind = ErrNone) =>
            res'[p].task.id = call'[p].id]_vars

\* UpdateTask has succeeded on a record CreateTask stored: the row's update time is
\* later than its creation time
C21_Witness ==
  \E p \in Procs :
    /\ Returned(p, "update") /\ Succeeded(p)
    /\ call[p].id \in DOMAIN store
    /\ \E k \in DOMAIN created : created[k].id = call[p].id
    /\ store[call[p].id].createdAt > 0
    /\ store[call[p].id].updatedAt > store[call[p].id].createdAt

\* C22: two clients: nothing guards the cache put of GetTask: when cache.SetTask
\* succeeds it stores the record GetByID read earlier, whatever the table holds by
\* then (no lock, no version check). The race this leaves open is C22_Witness.
C22_PutIsUnconditional ==
  [][\A p \in Procs :
       (pc[p] = "g_set" /\ pc'[p] = "done" /\ cacheFaults' = cacheFaults) =>
         /\ call[p].id \in DOMAIN taskCache'
         /\ Unmarshal(taskCache'[call[p].id]) = loc[p].task
         /\ res'[p] = OkTask(loc[p].task)]_vars

\* the race has happened without any cache failure: GetTask(id) and a successful
\* UpdateTask(id) or DeleteTask(id) have both returned, and the record cache holds
\* for the id a record that is not the row of the table
C22_Witness ==
  \E g \in Procs, u \in Procs :
    /\ Returned(g, "get") /\ Succeeded(g)
    /\ Done(u) /\ call[u].op \in {"update", "delete"} /\ Succeeded(u)
    /\ call[u].id = call[g].id
    /\ cacheFaults = 0 /\ nops = 2
    /\ call[g].id \in DOMAIN taskCache
    /\ \/ call[g].id \notin DOMAIN store
       \/ Unmarshal(taskCache[call[g].id]) # store[call[g].id]

\* ---------------------------------------------------------------- C23
\* every entry of c was given the deadline of its insertion plus cacheTTL
TtlEntries(c) == \A k \in DOMAIN c : c[k].at <= clock /\ c[k].exp = c[k].at + cacheTTL

\* C23: one client, minutes passing between its calls: every record and collection
\* entry carries the deadline of its insertion plus the 5-minute TTL; a cache read
\* leaves both caches as they were, so a hit extends no deadline; a hit serves an
\* entry less than one TTL after its insertion; and a read of an entry whose
\* deadline has passed goes on to the tasks table.
C23_TtlBoundsStaleness ==
  [][/\ TtlEntries(taskCache') /\ TtlEntries(listCache')
     /\ \A p \in Procs :
          /\ (pc[p] = "g_cache" /\ pc'[p] # "g_cache") =>
               LET id == call[p].id IN
                 /\ taskCache' = taskCache /\ listCache' = listCache
                 /\ (pc'[p] = "done" /\ res'[p].kind = ErrNone) =>
                      /\ id \in DOMAIN taskCache
                      /\ clock < taskCache[id].at + cacheTTL
                      /\ res'[p].task = Unmarshal(taskCache[id])
                 /\ (id \in DOMAIN taskCache /\ clock >= taskCache[id].at + cacheTTL) =>
                      pc'[p] = "g_repo"
          /\ (pc[p] = "l_cache" /\ pc'[p] # "l_cache") =>
               LET key == GenerateCacheKey(loc[p].filter) IN
                 /\ taskCache' = taskCache /\ listCache' = listCache
                 /\ (pc'[p] = "done" /\ res'[p].kind = ErrNone) =>
                      /\ key \in DOMAIN listCache
                      /\ clock < listCache[key].at + cacheTTL
                      /\ res'[p].resp.tasks = Unmarshal(listCache[key])
                 /\ (key \in DOMAIN listCache /\ clock >= listCache[key].at + cacheTTL) =>
                      pc'[p] = "l_count"]_vars

\* GetTask is on its way to the tasks table although the cache still holds, past its
\* deadline, an entry for the id that an UpdateTask failed to evict
C23_Witness ==
  \E p \in Procs :
    /\ pc[p] = "g_repo" /\ call[p].op = "get"
    /\ loc[p].cfail = 0
    /\ call[p].id \in DOMAIN taskCache /\ call[p].id \in DOMAIN store
    /\ clock >= taskCache[call[p].id].at + cacheTTL
    /\ Unmarshal(taskCache[call[p].id]) # store[call[p].id]

\* ---------------------------------------------------------------- C24
\* the store write of p's CreateTask, UpdateTask or DeleteTask has returned success
WriteDone(p) ==
  /\ loc[p].serr = ErrNone
  /\ CASE call[p].op = "create" -> loc[p].scalls = 1
       [] call[p].op = "update" -> loc[p].scalls = 2 /\ loc[p].rows >= 1
       [] call[p].op = "delete" -> loc[p].scalls = 1 /\ loc[p].rows >= 1
       [] OTHER -> FALSE

\* C24: two clients, any interleaving, in every step of a CreateTask, UpdateTask or
\* DeleteTask: the cache changes only in a step that calls the cache; a cache call is
\* made only after the store write of that call returned success and touches the
\* table no more; no entry is ever added; CreateTask leaves the record entries
\* alone; a successful call made one cache call (CreateTask) or two (UpdateTask,
\* DeleteTask); and a cache call that the cache answered removed the record entry
\* of the id and nothing else (the first of the two) or all collection entries and
\* nothing else (the last).
C24_StoreFirst ==
  [][\A p \in Procs :
       (pc[p] \notin {"idle", "done"} /\ pc'[p] # pc[p] /\ IsMutation(call[p].op)) =>
         LET cacheStep == loc'[p].ccalls > loc[p].ccalls
             answered == loc'[p].cfail = loc[p].cfail
             id == call[p].id
         IN /\ (taskCache' # taskCache \/ listCache' # listCache) => cacheStep
            /\ cacheStep => (WriteDone(p) /\ store' = store /\ loc'[p].scalls = loc[p].scalls)
            /\ ~WriteDone(p) => loc[p].ccalls = 0
            /\ DOMAIN taskCache' \subseteq DOMAIN taskCache
            /\ DOMAIN listCache' \subseteq DOMAIN listCache
            /\ call[p].op = "create" => taskCache' = taskCache
            /\ (pc'[p] = "done" /\ res'[p].kind = ErrNone /\ hasCache) =>
                 loc'[p].ccalls = (IF call[p].op = "create" THEN 1 ELSE 2)
            /\ (cacheStep /\ answered) =>
                 IF loc[p].ccalls = 0 /\ call[p].op # "create"
                 THEN /\ id \notin DOMAIN taskCache'
                      /\ \A k \in DOMAIN taskCache \ {id} :
                           k \in DOMAIN taskCache' /\ taskCache'[k] = taskCache[k]
                      /\ listCache' = listCache
                 ELSE /\ listCache' = EmptyFn
                      /\ taskCache' = taskCache]_vars

\* a GetTask put the record of an id in the cache, an UpdateTask of that id returned
\* success after two answered cache calls, and the entry is gone
C24_Witness ==
  \E g \in Procs, u \in Procs :
    /\ Returned(g, "get") /\ Succeeded(g)
    /\ loc[g].ccalls = 2 /\ loc[g].cfail = 0
    /\ Returned(u, "update") /\ Succeeded(u)
    /\ loc[u].ccalls = 2 /\ loc[u].cfail = 0
    /\ call[u].id = call[g].id
    /\ call[u].id \notin DOMAIN taskCache

\* ---------------------------------------------------------------- C25
\* C25: one client, when GetTask of a service with a cache has returned: it made at
\* most one call to the tasks table; with none it made one cache call, returned the
\* record cached for the id when it was called, and changed nothing; with one, the
\* id was not cached or the cache failed, and then either it returned the row of the
\* table after a second cache call that put that row under the id or failed and
\* changed nothing, or it returned NotFound (no such row) or a storage error and
\* left table and caches as they were. Without a cache it calls the table once.
C25_GetTaskPaths ==
  \A p \in Procs :
    Returned(p, "get") =>
      LET id == call[p].id
          l == loc[p]
      IN IF ~hasCache
         THEN l.scalls = 1 /\ l.ccalls = 0 /\ Untouched(p)
         ELSE /\ l.scalls \in {0, 1}
              /\ l.scalls = 0 =>
                   /\ id \in DOMAIN pre[p].taskCache
                   /\ res[p] = OkTask(Unmarshal(pre[p].taskCache[id]))
                   /\ l.ccalls = 1 /\ l.cfail = 0
                   /\ Untouched(p)
              /\ l.scalls = 1 =>
                   /\ id \notin DOMAIN pre[p].taskCache \/ l.cfail >= 1
                   /\ store = pre[p].store /\ listCache = pre[p].listCache
                   /\ IF Succeeded(p)
                      THEN /\ id \in DOMAIN store /\ res[p] = OkTask(store[id])
                           /\ l.ccalls = 2
                           /\ \/ /\ l.cfail >= 1
                                 /\ taskCache = pre[p].taskCache
                              \/ /\ id \in DOMAIN taskCache
                                 /\ Unmarshal(taskCache[id]) = store[id]
                                 /\ \A k \in DOMAIN taskCache \ {id} :
                                      k \in DOMAIN pre[p].taskCache
                                      /\ taskCache[k] = pre[p].taskCache[k]
                                 /\ DOMAIN pre[p].taskCache \subseteq DOMAIN taskCache
                      ELSE /\ l.ccalls = 1
                           /\ taskCache = pre[p].taskCache
                           /\ res[p].kind \in {ErrTaskNotFound, ErrStorage}
                           /\ res[p].kind = ErrTaskNotFound => id \notin DOMAIN store

\* a second call, GetTask, was answered from the cache without a call to the table
C25_Witness ==
  \E p \in Procs :
    /\ Returned(p, "get") /\ Succeeded(p)
    /\ hasCache /\ nops >= 2
    /\ loc[p].scalls = 0 /\ loc[p].ccalls = 1

\* ---------------------------------------------------------------- C26
\* C26: one client, when ListTasks of a service with a cache has returned success:
\* if it made no call to the tasks table, the key of the normalized filter was
\* cached when it was called, the response carries that cached slice, total = its
\* length, totalPages = ceil(length / pageSize) with the normalized page and page
\* size, and table and caches are as they were; if it called the table and the
\* cache answered the put, the entry under the key of the normalized filter holds
\* exactly the page the table yields for that filter, and nothing else changed.
C26_ListHitAndMiss ==
  \A p \in Procs :
    (Returned(p, "list") /\ Succeeded(p) /\ hasCache) =>
      LET f == Normalize(call[p].filter)
          key == GenerateCacheKey(f)
          r == res[p].resp
      IN /\ loc[p].scalls = 0 =>
              /\ key \in DOMAIN pre[p].listCache
              /\ r.tasks = Unmarshal(pre[p].listCache[key])
              /\ r.total = Len(r.tasks)
              /\ r.totalPages = CeilDiv(Len(r.tasks), f.size)
              /\ r.page = f.page /\ r.pageSize = f.size
              /\ Untouched(p)
         /\ (loc[p].scalls >= 1 /\ loc[p].ccalls = 2 /\ loc[p].cfail = 0) =>
              /\ key \in DOMAIN listCache
              /\ Unmarshal(listCache[key]) = RepoSelectPage(store, f)
              /\ r.tasks = RepoSelectPage(store, f)
              /\ DOMAIN listCache = DOMAIN pre[p].listCache \cup {key}
              /\ \A k \in DOMAIN pre[p].listCache \ {key} : listCache[k] = pre[p].listCache[k]
              /\ store = pre[p].store /\ taskCache = pre[p].taskCache

\* ListTasks was answered from the cache with a total that is not the number of rows
\* the table holds for the filter
C26_Witness ==
  \E p \in Procs :
    /\ Returned(p, "list") /\ Succeeded(p) /\ hasCache
    /\ loc[p].scalls = 0
    /\ res[p].resp.total = Len(res[p].resp.tasks)
    /\ res[p].resp.total # RepoCountWhere(store, loc[p].filter)

\* ---------------------------------------------------------------- C27
\* C27 as stated: two clients, any interleaving: the write of an UpdateTask leaves
\* every field that is absent from its request at the value the row of the tasks
\* table held immediately before that write.
C27_Original ==
  [][\A p \in Procs :
       (pc[p] = "u_repo" /\ pc'[p] # "u_repo"
          /\ call[p].id \in DOMAIN store /\ call[p].id \in DOMAIN store') =>
         LET req == call[p].ureq
             old == store[call[p].id]
             new == store'[call[p].id]
         IN /\ req.title = Nil => new.title = old.title
            /\ req.desc = Nil => new.desc = old.desc
            /\ req.status = Nil => new.status = old.status
            /\ req.assignee = Nil => new.assignee = old.assignee]_vars

\* ---------------------------------------------------------------- C28
\* the value UpdateTask gives a field: the request's when present, else the old one
Given(requested, old) == IF requested # Nil THEN requested ELSE old

\* C28: one client, when UpdateTask has returned success: the record it returned is
\* the row the tasks table held for the id when it was called, with the request's
\* fields applied and a new update time, whatever record the cache held for the id;
\* and the table holds that record.
C28_UpdateFromStore ==
  \A p \in Procs :
    (Returned(p, "update") /\ Succeeded(p)) =>
      LET id == call[p].id
          req == call[p].ureq
          t == res[p].task
      IN /\ id \in DOMAIN pre[p].store /\ id \in DOMAIN store
         /\ LET old == pre[p].store[id]
            IN /\ t.id = old.id /\ t.createdAt = old.createdAt
               /\ t.title = Given(req.title, old.title)
               /\ t.desc = Given(req.desc, old.desc)
               /\ t.status = Given(req.status, old.status)
               /\ t.assignee = Given(req.assignee, old.assignee)
               /\ t.updatedAt > old.updatedAt
         /\ store[id] = [t EXCEPT !.updatedAt = PgTime(t.updatedAt)]

\* UpdateTask returned success for an id whose cached record differed from the row
\* of the table when it was called
C28_Witness ==
  \E p \in Procs :
    /\ Returned(p, "update") /\ Succeeded(p)
    /\ call[p].id \in DOMAIN pre[p].taskCache
    /\ call[p].id \in DOMAIN pre[p].store
    /\ Unmarshal(pre[p].taskCache[call[p].id]) # pre[p].store[call[p].id]
    /\ res[p].task.title # Unmarshal(pre[p].taskCache[call[p].id]).title

\* ---------------------------------------------------------------- C29
\* C29: one client, when UpdateTask has returned and the store answered its calls:
\* for an id with no row in the tasks table it returned NotFound after its one
\* store call, whatever status the request carried; it returned InvalidInput only
\* for an id that had a row, after that row was fetched, and for such an id every
\* request with a status outside the enumeration got InvalidInput; in both cases
\* table and caches are as they were.
C29_ExistenceFirst ==
  \A p \in Procs :
    Returned(p, "update") =>
      LET id == call[p].id IN
        /\ (StoreAnswered(p) /\ id \notin DOMAIN pre[p].store) =>
             /\ res[p].kind = ErrTaskNotFound
             /\ loc[p].scalls = 1 /\ loc[p].ccalls = 0
             /\ Untouched(p)
        /\ res[p].kind = ErrInvalidInput =>
             /\ id \in DOMAIN pre[p].store
             /\ BadStatus(call[p])
             /\ loc[p].scalls = 1 /\ loc[p].ccalls = 0
             /\ Untouched(p)
        /\ (StoreAnswered(p) /\ id \in DOMAIN pre[p].store /\ BadStatus(call[p])) =>
             res[p].kind = ErrInvalidInput

\* UpdateTask with a status outside the enumeration, for an id that has no row while
\* the table has another, returned NotFound
C29_Witness ==
  \E p \in Procs :
    /\ Returned(p, "update") /\ BadStatus(call[p])
    /\ call[p].id \notin DOMAIN pre[p].store
    /\ pre[p].store # EmptyFn
    /\ res[p].kind = ErrTaskNotFound

\* ---------------------------------------------------------------- C30
\* identifiers the record keys are derived for
KeyIds == 0..12

\* every key GenerateCacheKey derives over KeyFilters matches "tasks:list*"; no
\* record key does or equals such a key; different ids have different record keys
KeyPatterns ==
  /\ \A f \in KeyFilters : MatchesListPattern(GenerateCacheKey(f))
  /\ \A i \in KeyIds :
       /\ ~MatchesListPattern(TaskKey(i))
       /\ \A f \in KeyFilters : TaskKey(i) # GenerateCacheKey(f)
       /\ \A j \in KeyIds : TaskKey(i) = TaskKey(j) => i = j
  /\ TaskKey(7) = "task:7"

\* the places of a method at which it calls InvalidateTaskList, and cache.DeleteTask
AtInvalidate(p) == pc[p] \in {"c_inval", "u_inval", "d_inval"}

AtEvict(p) == pc[p] \in {"u_del", "d_del"}

\* C30: one client, in every step: the keys of the collection entries match
\* "tasks:list*" and the keys of the record entries do not; an InvalidateTaskList
\* that returned without error left no collection entry and left the record
\* entries as they were; a cache DeleteTask(id) that returned without error left no
\* entry for the id, left every other record entry and all collection entries as
\* they were, and returned without error also when the id had no entry.
C30_EvictionFrames ==
  [][/\ KeyPatterns
     /\ \A k \in DOMAIN listCache : MatchesListPattern(k)
     /\ \A i \in DOMAIN taskCache : ~MatchesListPattern(TaskKey(i))
     /\ \A p \in Procs :
          LET answered == pc'[p] # pc[p] /\ loc'[p].cfail = loc[p].cfail
              id == call[p].id
          IN /\ (AtInvalidate(p) /\ answered) =>
                  /\ listCache' = EmptyFn
                  /\ taskCache' = taskCache
             /\ (AtEvict(p) /\ answered) =>
                  /\ id \notin DOMAIN taskCache'
                  /\ DOMAIN taskCache' = DOMAIN taskCache \ {id}
                  /\ \A k \in DOMAIN taskCache' : taskCache'[k] = taskCache[k]
                  /\ listCache' = listCache
                  /\ ~loc'[p].evictErr
             /\ (AtEvict(p) /\ id \notin DOMAIN taskCache /\ cacheFaults' = cacheFaults) =>
                  /\ pc'[p] # pc[p] => (~loc'[p].evictErr /\ taskCache' = taskCache)]_vars

\* CreateTask returned after an InvalidateTaskList without error: the collection
\* entries cached when it was called are gone, the record entries are all there
C30_Witness ==
  \E p \in Procs :
    /\ Returned(p, "create") /\ Succeeded(p)
    /\ loc[p].ccalls = 1 /\ loc[p].cfail = 0
    /\ pre[p].listCache # EmptyFn /\ pre[p].taskCache # EmptyFn
    /\ listCache = EmptyFn /\ taskCache = pre[p].taskCache

\* ---------------------------------------------------------------- C31
\* the keys of c2 that c1 lacks or holds with another entry
Written(c1, c2) == {k \in DOMAIN c2 : k \notin DOMAIN c1 \/ c2[k] # c1[k]}

\* C31: in every step: a record entry is written only by the last
\* step of a GetTask that missed, under the id of the call, with the record that
\* call read from the tasks table; a collection entry only by the last step of a
\* ListTasks that missed, under the key of its normalized filter, with the page that
\* call read. The record a GetTask holds is the row the table held at the step
\* that read it, the page a ListTasks holds is the page the table yielded at the
\* step that read it, and neither changes until it is written. A step of
\* CreateTask, UpdateTask or DeleteTask writes no entry.
C31_CacheWrittenByReads ==
  [][LET wt == Written(taskCache, taskCache')
         wl == Written(listCache, listCache')
     IN /\ \A k \in wt :
             \E p \in Procs :
               /\ pc[p] = "g_set" /\ pc'[p] = "done" /\ call[p].op = "get"
               /\ k = call[p].id
               /\ Unmarshal(taskCache'[k]) = loc[p].task
        /\ \A k \in wl :
             \E p \in Procs :
               /\ pc[p] = "l_set" /\ pc'[p] = "done" /\ call[p].op = "list"
               /\ k = GenerateCacheKey(Normalize(call[p].filter))
               /\ Unmarshal(listCache'[k]) = loc[p].tasks
        /\ \A p \in Procs :
             /\ (pc[p] # "g_set" /\ pc'[p] = "g_set") =>
                  /\ call[p].id \in DOMAIN store
                  /\ loc'[p].task = store[call[p].id]
             /\ (pc[p] = "g_set" /\ pc'[p] = "g_set") => loc'[p].task = loc[p].task
             /\ (pc[p] # "l_set" /\ pc'[p] = "l_set") =>
                  loc'[p].tasks = RepoSelectPage(store, Normalize(call[p].filter))
             /\ (pc[p] = "l_set" /\ pc'[p] = "l_set") => loc'[p].tasks = loc[p].tasks
             /\ (pc'[p] # pc[p] /\ pc[p] \notin {"idle", "done"} /\ IsMutation(call[p].op)) =>
                  (wt = {} /\ wl = {})]_vars

\* the cache holds for an id the record a GetTask put there, which is no longer
\* the row of the table since an UpdateTask whose eviction failed
C31_Witness ==
  \E p \in Procs :
    /\ Returned(p, "update") /\ Succeeded(p) /\ loc[p].evictErr
    /\ call[p].id \in DOMAIN taskCache /\ call[p].id \in DOMAIN pre[p].store
    /\ Unmarshal(taskCache[call[p].id]) = pre[p].store[call[p].id]
    /\ Unmarshal(taskCache[call[p].id]) # store[call[p].id]

\* ---------------------------------------------------------------- C32
\* C32: two clients, any interleaving: no step of an UpdateTask adds a row to the
\* tasks table; and when the row of its id is gone at its repo.Update (a DeleteTask
\* committed after its GetByID) and the store answers, the UPDATE affects no row,
\* UpdateTask returns NotFound having made no cache call, and table and caches are
\* as they were before that step.
C32_NoResurrection ==
  [][\A p \in Procs :
       (pc'[p] # pc[p] /\ call[p].op = "update" /\ pc[p] \notin {"idle", "done"}) =>
         /\ DOMAIN store' \subseteq DOMAIN store
         /\ (pc[p] = "u_repo" /\ call[p].id \notin DOMAIN store
               /\ storeFaults' = storeFaults) =>
              /\ pc'[p] = "done"
              /\ res'[p].kind = ErrTaskNotFound
              /\ loc'[p].rows = 0
              /\ loc'[p].ccalls = 0
              /\ store' = store /\ taskCache' = taskCache /\ listCache' = listCache]_vars

\* an UpdateTask whose GetByID found the row returned NotFound from repo.Update,
\* the DeleteTask of the other client having succeeded for the same id
C32_Witness ==
  \E u \in Procs, d \in Procs :
    /\ Returned(u, "update") /\ res[u].kind = ErrTaskNotFound
    /\ loc[u].scalls = 2 /\ loc[u].rows = 0 /\ loc[u].ccalls = 0
    /\ Returned(d, "delete") /\ Succeeded(d)
    /\ call[d].id = call[u].id
    /\ call[u].id \notin DOMAIN store

\* ---------------------------------------------------------------- C33
\* C33 as stated: single client: every successful ListTasks response, served by the
\* cache or by the store, has totalPages >= 1 and
\* totalPages = max(1, ceil(total / pageSize)).
C33_Original ==
  \A p \in Procs :
    (Returned(p, "list") /\ Succeeded(p)) =>
      LET r == res[p].resp
      IN /\ r.totalPages >= 1
         /\ r.totalPages = Max(1, CeilDiv(r.total, r.pageSize))

\* ------------------------------------------------ requests that normalize alike
\* ListTasks reads page 0 as page 1 and page size 150 as page size 100
ClampedFilter ==
  [isNil |-> FALSE, status |-> TaskStatusPending, assignee |-> "x", page |-> 0, size |-> 150]

\* the same request written with the normalized page and page size
AliasFilters ==
  { [isNil |-> FALSE, status |-> TaskStatusPending, assignee |-> "x", page |-> 1, size |-> 100] }

StartListAlias(p) ==
  \E f \in AliasFilters : Enter(p, [NoCall EXCEPT !.op = "list", !.filter = f], "l_norm")

\* the one client of a service with a cache has called ListTasks with ClampedFilter,
\* which missed and put the page of the table in the cache
AliasInit ==
  /\ store = [i \in {1} |-> SeedRow]
  /\ taskCache = EmptyFn
  /\ listCache = [k \in {GenerateCacheKey(Normalize(ClampedFilter))} |->
                    SetWithTTL(Marshal(<<SeedRow>>), 0)]
  /\ hasCache = TRUE
  /\ clock = 0
  /\ nextId = 2
  /\ cacheFaults = 0
  /\ storeFaults = 0
  /\ pc = [p \in Procs |-> IF p = 1 THEN "done" ELSE "idle"]
  /\ call = [p \in Procs |->
              IF p = 1 THEN [NoCall EXCEPT !.op = "list", !.filter = ClampedFilter] ELSE NoCall]
  /\ loc = [p \in Procs |->
             IF p = 1
             THEN [NoLoc EXCEPT !.tasks = <<SeedRow>>, !.total = 1,
                                !.filter = Normalize(ClampedFilter),
                                !.scalls = 1, !.ccalls = 2]
             ELSE NoLoc]
  /\ res = [p \in Procs |->
             IF p = 1 THEN OkResp(MissResponse(<<SeedRow>>, 1, Normalize(ClampedFilter)))
             ELSE NoRes]
  /\ pre = [p \in Procs |->
             IF p = 1 THEN [NoSnapshot EXCEPT !.store = [i \in {1} |-> SeedRow]]
             ELSE NoSnapshot]
  /\ nops = 1
  /\ clients = 1
  /\ refStore = [i \in {1} |-> SeedRow]
  /\ refRes = [p \in Procs |->
                IF p = 1 THEN OkResp(MissResponse(<<SeedRow>>, 1, Normalize(ClampedFilter)))
                ELSE NoRes]
  /\ lastUpd = [i \in Ids |-> NoUpd]
  /\ deleted = [i \in Ids |-> NoDel]
  /\ created = <<>>

AliasNext == Next \/ \E p \in Procs : StartListAlias(p)

\* one client, whose requests include the aliases
AliasSpec == AliasInit /\ [][AliasNext]_vars

\* ---------------------------------------------------------------- C34
\* the filters ListTasks derives a key for: normalized, with a status it accepts
NormalFilters == {Normalize(f) : f \in {g \in KeyFilters : g.isNil \/ ~ListInvalid(g)}}

\* different normalized filters have different keys
NormalKeysInjective ==
  \A f, g \in NormalFilters : f # g => GenerateCacheKey(f) # GenerateCacheKey(g)

\* the key of ClampedFilter and of its normalized form, as the code concatenates it
SharedKey == "tasks:list:status:pending:assignee:x:page:1:size:100"

\* C34: one client whose requests include a request and its normalized form: a
\* successful ListTasks whose cache read was answered was served by the cache
\* exactly when an entry was cached, when it was called, under the key of its
\* normalized filter, whichever request had put it there, and then returned that
\* entry; the request with page 0 and page size 150 and the request with page 1 and
\* page size 100 both put their page under SharedKey and are both served by an
\* entry cached under it; every collection entry is the entry of exactly one
\* normalized filter; and GenerateCacheKey gives different normalized filters
\* different keys.
C34_SharedEntry ==
  /\ NormalKeysInjective
  /\ \A p \in Procs :
       (Returned(p, "list") /\ Succeeded(p) /\ hasCache /\ loc[p].cfail = 0
          /\ call[p].filter \in AliasFilters \cup {ClampedFilter}) =>
         /\ loc[p].scalls = 0 <=> SharedKey \in DOMAIN pre[p].listCache
         /\ loc[p].scalls > 0 => SharedKey \in DOMAIN listCache
  /\ \A p \in Procs :
       (Returned(p, "list") /\ Succeeded(p) /\ hasCache /\ loc[p].cfail = 0) =>
         /\ loc[p].scalls = 0 <=> CachedAtEntry(p, call[p].filter)
         /\ loc[p].scalls = 0 => res[p].resp.tasks = PageAtEntry(p, call[p].filter)
  /\ \A k \in DOMAIN listCache :
       Cardinality({Normalize(f) :
                      f \in {g \in Filters \cup AliasFilters :
                               GenerateCacheKey(Normalize(g)) = k}}) = 1

\* the second call, ListTasks with page 1 and page size 100, was served by the entry
\* that the first call, with page 0 and page size 150, had put in the cache
C34_Witness ==
  \E p \in Procs :
    /\ Returned(p, "list") /\ Succeeded(p)
    /\ nops = 2
    /\ call[p].filter \in AliasFilters /\ call[p].filter # ClampedFilter
    /\ loc[p].scalls = 0
    /\ res[p].resp.tasks = <<SeedRow>>

\* ---------------------------------------------------------------- C35
\* the caller's cancellation fired at the last call the method made: at a store
\* call, which ends the method, or at InvalidateTaskList after every earlier call
\* had succeeded
CancelledAtLastCall(p) ==
  \/ loc[p].serr = ErrStorage
  \/ hasCache /\ loc[p].cfail = 1 /\ ~loc[p].evictErr

\* C35 as stated: single client: a CreateTask, UpdateTask or DeleteTask whose
\* context was cancelled at a store call returns the storage error, and after a
\* call cancelled at any store or cache call the cache is either as it was when
\* the call was entered or invalidated in full: the record entry of the call's id
\* evicted (UpdateTask, DeleteTask) and every collection entry removed.
C35_Original ==
  \A p \in Procs :
    (Done(p) /\ IsMutation(call[p].op) /\ CancelledAtLastCall(p)) =>
      /\ loc[p].serr = ErrStorage => res[p].kind = ErrStorage
      /\ \/ taskCache = pre[p].taskCache /\ listCache = pre[p].listCache
         \/ /\ taskCache = IF call[p].op = "create" THEN pre[p].taskCache
                           ELSE CacheDeleteTask(pre[p].taskCache, call[p].id)
            /\ listCache = InvalidateTaskList(pre[p].listCache)

\* ---------------------------------------------------------------- C36
\* the steps of the method a client is running
Running(p) ==
  \/ CreateNew(p) \/ CreateRepo(p) \/ CreateInvalidate(p)
  \/ GetCache(p) \/ GetRepo(p) \/ GetSet(p)
  \/ ListNormalize(p) \/ ListCache(p) \/ ListCount(p) \/ ListSelect(p) \/ ListSet(p)
  \/ UpdateGet(p) \/ UpdateApply(p) \/ UpdateRepo(p) \/ UpdateEvict(p) \/ UpdateInvalidate(p)
  \/ DeleteRepo(p) \/ DeleteEvict(p) \/ DeleteInvalidate(p)
  \/ CountRepo(p)

\* one client of a service with a cache, after its first GetTask; every store and
\* cache call returns and the method goes on
FairSpec == TtlInit /\ [][Next]_vars /\ \A p \in Procs : WF_vars(Running(p))

Busy(p) == pc[p] \notin {"idle", "done"}

\* the positions at which a method calls the store: Create, GetByID, GetAll,
\* GetByID and Update of UpdateTask, Delete, Count
StoreLabels == {"c_repo", "g_repo", "l_count", "u_get", "u_repo", "d_repo", "k_repo"}

\* how far a position is from the method's entry
Rank(label) ==
  CASE label \in {"c_new", "g_cache", "l_norm", "u_get", "d_repo", "k_repo"} -> 1
    [] label \in {"c_repo", "g_repo", "l_cache", "u_apply", "d_del"} -> 2
    [] label \in {"c_inval", "g_set", "l_count", "u_repo", "d_inval"} -> 3
    [] label \in {"l_select", "u_del"} -> 4
    [] label \in {"l_set", "u_inval"} -> 5
    [] label = "done" -> 6
    [] OTHER -> 0

\* a step of a running method moves it forward, calls the store exactly at the
\* store positions, once, and a store error ends the method with that error
NoRetryStep ==
  \A p \in Procs :
    (Busy(p) /\ (pc'[p] # pc[p] \/ loc'[p] # loc[p])) =>
      /\ Rank(pc'[p]) > Rank(pc[p])
      /\ call'[p] = call[p]
      /\ loc'[p].scalls = loc[p].scalls + (IF pc[p] \in StoreLabels THEN 1 ELSE 0)
      /\ loc'[p].serr # ErrNone =>
           /\ loc[p].serr = ErrNone
           /\ pc[p] \in StoreLabels \cup {"l_select"}
           /\ pc'[p] = "done"
           /\ res'[p].kind = loc'[p].serr
           /\ store' = store

\* the store calls a returned method has made
StoreCallsBounded ==
  \A p \in Procs :
    Done(p) =>
      /\ loc[p].scalls <= (IF call[p].op = "update" THEN 2 ELSE 1)
      /\ loc[p].serr # ErrNone => res[p].kind = loc[p].serr

\* C36: single client whose store and cache calls all return: no step of a method
\* goes back to an earlier position, so every position is passed at most once per
\* call; the store is called only at the positions of Create, GetByID, GetAll,
\* Update, Delete and Count, once each, so a returned CreateTask, GetTask,
\* ListTasks, DeleteTask or GetTaskCount has made at most one store call and a
\* returned UpdateTask at most two (GetByID, then Update); a store call that fails
\* ends the method at that step with the error's kind and the table unchanged; and
\* every method that was entered returns.
C36_NoRetry ==
  /\ []StoreCallsBounded
  /\ [][NoRetryStep]_vars
  /\ \A p \in Procs : Busy(p) ~> Done(p)

\* an UpdateTask whose GetByID succeeded and whose Update failed returned the
\* storage error after two store calls
C36_Witness ==
  \E p \in Procs :
    /\ Returned(p, "update")
    /\ loc[p].scalls = 2
    /\ loc[p].serr = ErrStorage
    /\ res[p].kind = ErrStorage
    /\ storeFaults = 1

\* ---------------------------------------------------------------- C37
\* the rows a table can hold under an identifier
GetAllRows(i) ==
  { [id |-> i, title |-> "a", desc |-> "d", status |-> s, assignee |-> a,
     createdAt |-> t, updatedAt |-> t] :
      s \in {TaskStatusPending, TaskStatusCompleted}, a \in {"x", "y"},
      t \in {0, MicroSecond} }

\* the tables of up to MaxRows rows, rows with equal creation times included
GetAllTables ==
  UNION { { st \in [1..n -> UNION {GetAllRows(i) : i \in 1..n}] :
              \A i \in 1..n : st[i].id = i } : n \in 0..MaxRows }

\* the filters ListTasks hands to GetAll: normalized, with a valid status
GetAllFilters ==
  { [isNil |-> FALSE, status |-> s, assignee |-> a, page |-> pg, size |-> sz] :
      s \in {Nil, TaskStatusPending, TaskStatusCompleted}, a \in {Nil, "x", "y"},
      pg \in 1..3, sz \in {1, 2, DefaultPageSize} }

\* a service without a cache is about to call repo.GetAll in its first ListTasks
GetAllInit ==
  \E st \in GetAllTables, f \in GetAllFilters :
    /\ store = st
    /\ taskCache = EmptyFn
    /\ listCache = EmptyFn
    /\ hasCache = FALSE
    /\ clock = 0
    /\ nextId = Cardinality(DOMAIN st) + 1
    /\ cacheFaults = 0
    /\ storeFaults = 0
    /\ pc = [p \in Procs |-> IF p = 1 THEN "l_count" ELSE "idle"]
    /\ call = [p \in Procs |->
                IF p = 1 THEN [NoCall EXCEPT !.op = "list", !.filter = f] ELSE NoCall]
    /\ loc = [p \in Procs |-> IF p = 1 THEN [NoLoc EXCEPT !.filter = Normalize(f)] ELSE NoLoc]
    /\ res = [p \in Procs |-> NoRes]
    /\ pre = [p \in Procs |->
               IF p = 1 THEN [NoSnapshot EXCEPT !.store = st] ELSE NoSnapshot]
    /\ nops = 1
    /\ clients = 1
    /\ refStore = st
    /\ refRes = [p \in Procs |-> NoRes]
    /\ lastUpd = [i \in Ids |-> NoUpd]
    /\ deleted = [i \in Ids |-> NoDel]
    /\ created = <<>>

\* the two queries of repo.GetAll
GetAllNext == \E p \in Procs : ListCount(p) \/ ListSelect(p)

GetAllSpec == GetAllInit /\ [][GetAllNext]_vars

\* the identifiers of the rows that satisfy the predicates the filter has
Satisfying(f) ==
  { i \in DOMAIN store :
      /\ f.status # Nil => store[i].status = f.status
      /\ f.assignee # Nil => store[i].assignee = f.assignee }

\* C37: a ListTasks of a service without a cache whose GetAll returned (tasks,
\* total) for filter f: total is the number of rows satisfying the status and the
\* assignee predicate that f has, whatever the page; tasks holds
\* min(pageSize, max(0, total - offset)) rows, offset = (page - 1) * pageSize, so
\* none when the page lies beyond the last row; each is a row of the table that
\* satisfies the predicates, none twice; creation times do not increase along
\* tasks; and at most offset satisfying rows are newer than the first of tasks
\* while at least offset + Len(tasks) are as new as the last.
C37_GetAllPage ==
  \A p \in Procs :
    (Returned(p, "list") /\ Succeeded(p) /\ ~hasCache) =>
      LET f == loc[p].filter
          tasks == loc[p].tasks
          total == loc[p].total
          n == Len(tasks)
          offset == (f.page - 1) * f.size
          sat == Satisfying(f)
      IN /\ total = Cardinality(sat)
         /\ n = Max(0, Min(f.size, total - offset))
         /\ offset >= total => tasks = <<>>
         /\ \A k \in 1..n : tasks[k].id \in sat /\ tasks[k] = store[tasks[k].id]
         /\ \A j, k \in 1..n : j # k => tasks[j].id # tasks[k].id
         /\ \A k \in 1..(n - 1) : tasks[k].createdAt >= tasks[k + 1].createdAt
         /\ n > 0 =>
              /\ Cardinality({i \in sat : store[i].createdAt > tasks[1].createdAt}) <= offset
              /\ Cardinality({i \in sat : store[i].createdAt >= tasks[n].createdAt})
                   >= offset + n
         /\ res[p].resp.tasks = tasks /\ res[p].resp.total = total

\* both predicates present, the table holds a row that satisfies both and a row
\* that satisfies the status predicate only; the second page of size 1 lies beyond
\* the last record: it is empty and the total is 1
C37_Witness ==
  \E p \in Procs :
    /\ Returned(p, "list") /\ Succeeded(p)
    /\ loc[p].filter.status # Nil /\ loc[p].filter.assignee # Nil
    /\ loc[p].filter.page = 2 /\ loc[p].filter.size = 1
    /\ loc[p].total = 1
    /\ loc[p].tasks = <<>>
    /\ \E i \in DOMAIN store :
         /\ store[i].status = loc[p].filter.status
         /\ store[i].assignee # loc[p].filter.assignee

\* ---------------------------------------------------------------- C38
\* a collection entry lists a record the table no longer holds
StaleCollectionEntry ==
  \E k \in DOMAIN listCache :
    \E j \in 1..Len(Unmarshal(listCache[k])) :
      Unmarshal(listCache[k])[j].id \notin DOMAIN store

\* C38: single client: a GetTaskCount that returned made one store call and no
\* cache call and left the table and both kinds of cache entries as they were;
\* when the store call succeeded it returned the number of rows of the table,
\* whatever the cache holds, and when it failed it returned the storage error.
C38_CountFromStore ==
  \A p \in Procs :
    Returned(p, "count") =>
      /\ loc[p].scalls = 1
      /\ loc[p].ccalls = 0 /\ loc[p].cfail = 0
      /\ Untouched(p)
      /\ IF loc[p].serr = ErrNone
         THEN /\ Succeeded(p)
              /\ res[p].count = Cardinality(DOMAIN store)
              /\ res[p] = refRes[p]
         ELSE /\ loc[p].serr = ErrStorage
              /\ res[p].kind = ErrStorage

\* GetTaskCount returned 0 for the empty table while a collection entry still
\* lists the deleted record
C38_Witness ==
  \E p \in Procs :
    /\ Returned(p, "count") /\ Succeeded(p)
    /\ res[p].count = 0
    /\ store = EmptyFn
    /\ StaleCollectionEntry

====
